---- MODULE Spec2Model ----
(***************************************************************************)
(* A model of the nuls language-server session: the Backend object of      *)
(* src/src/backend/mod.rs with the handlers of                             *)
(* src/src/backend/language_server.rs (specification Spec), and the        *)
(* single-file Backend of src/src/main.rs (specification SpecMain).        *)
(*                                                                         *)
(* Every handler invocation is a task.  A task runs atomically from one    *)
(* .await to the next; the field pc names the .await it is suspended on.   *)
(* Time is a millisecond clock advanced by Tick.                           *)
(***************************************************************************)
EXTENDS Integers, Sequences, FiniteSets, TLC

VARIABLES
    now,                        \* Instant::now(), in ms since Backend::new
    can_change_configuration,   \* OnceLock<bool>: <<>> unset, <<b>> set
    can_lookup_configuration,   \* OnceLock<bool>
    can_publish_diagnostics,    \* OnceLock<bool>
    documents,                  \* RwLock<TextDocuments>: uri -> [text, version]
    document_settings,          \* RwLock<HashMap<Url, IdeSettings>>
    global_settings,            \* RwLock<IdeSettings> (ide_settings in main.rs)
    last_validated,             \* RwLock<Instant>
    poisoned,                   \* the RwLocks a panic has poisoned
    tasks,                      \* the handler invocations, in arrival order
    diagnostics                 \* client side: uri -> last publish_diagnostics

vars == <<now, can_change_configuration, can_lookup_configuration,
          can_publish_diagnostics, documents, document_settings,
          global_settings, last_validated, poisoned, tasks, diagnostics>>

flags == <<can_change_configuration, can_lookup_configuration,
           can_publish_diagnostics>>

-----------------------------------------------------------------------------
(* Bounds of the model *)

MaxTasks == 2            \* handler invocations in a behaviour of Spec
MaxTasksThrottle == 4    \* ... of SpecThrottle
MaxTasksConfig == 3      \* ... of SpecConfig
MaxTasksRevalidate == 4  \* ... of SpecRevalidate
MaxTasksMain == 3        \* ... of SpecMain
MaxTasksDocs == 4        \* ... of SpecDocs
MaxTasksLive == 3        \* ... of SpecLive
MaxTasksErrors == 2      \* ... of SpecErrors
MaxTasksGoto == 3        \* ... of SpecGoto
MaxTasksArgs == 3        \* ... of SpecArgs
MaxTasksCache == 3       \* ... of SpecCache
MaxTasksSpans == 4       \* ... of SpecSpans
MaxChunks == 3           \* pieces of a compiler output
MaxLabels == 2           \* labels of a completion answer
MaxLabelLen == 2         \* characters of a label
MaxDocLen == 2           \* characters of a document whose offsets are converted
TickMs == 250            \* the step of the clock
MaxNow == 750            \* the clock stops here

\* the uris of the model, in the key order of the BTreeMap behind TextDocuments
UriOrder == <<"file:///a.nu", "file:///b.nu">>
Uris == {UriOrder[k] : k \in DOMAIN UriOrder}
\* Uris and more of them: the root directory, a file in a directory, a file
\* on another host and a document that is no file, in the same key order
\* (Url orders by its text)
UriOrderArgs == <<"file:///">> \o UriOrder \o
                <<"file:///dir/c.nu", "file://host/d.nu", "untitled:one">>
UrisArgs == {UriOrderArgs[k] : k \in DOMAIN UriOrderArgs}
\* what a didOpen or didChange notification carries besides the uri: the new
\* full text and the version the client gives it
Edits == { [text |-> "a", version |-> 1], [text |-> "b", version |-> 2] }

(* Program constants *)

THROTTLE_MS == 500

-----------------------------------------------------------------------------
(* IdeSettings *)

DefaultSettings ==
    [ show_inferred_types |-> TRUE,
      include_dirs |-> <<>>,
      max_number_of_problems |-> 1000,
      max_nushell_invocation_time |-> 10000,
      nushell_executable_path |-> "nu" ]

AltSettings ==
    [ show_inferred_types |-> FALSE,
      include_dirs |-> <<"lib", "vendor">>,
      max_number_of_problems |-> 5,
      max_nushell_invocation_time |-> 2000,
      nushell_executable_path |-> "/opt/nu" ]

\* JSON values a client can send where IdeSettings is expected: an object that
\* deserializes (here to AltSettings), the empty object (every field defaulted),
\* and a value serde rejects.
SettingsJson == {"alt", "empty", "malformed"}

\* serde_json::from_value::<IdeSettings>(value): Ok(settings) as <<settings>>,
\* Err as <<>>.
ParseIdeSettings(json) ==
    CASE json = "alt" -> <<AltSettings>>
      [] json = "empty" -> <<DefaultSettings>>
      [] OTHER -> <<>>

\* .unwrap_or_default() on the parse of an IdeSettings value
SettingsOrDefault(json) ==
    IF ParseIdeSettings(json) = <<>> THEN DefaultSettings
    ELSE ParseIdeSettings(json)[1]

\* DidChangeConfigurationParams.settings: an object with the section
\* nushellLanguageServer (section), an object without it, an array (items:
\* its elements), or a value that is neither (a string, a number, null).
Payloads ==
    { [object |-> TRUE, section |-> <<j>>, items |-> <<>>] : j \in SettingsJson }
    \cup { [object |-> FALSE, section |-> <<>>, items |-> <<j>>] :
              j \in SettingsJson }
    \cup { [object |-> TRUE, section |-> <<>>, items |-> <<>>],
           [object |-> FALSE, section |-> <<>>, items |-> <<>>],
           [object |-> FALSE, section |-> <<>>, items |-> <<"alt", "alt">>] }

\* serde_json::from_value::<ClientSettingsPayload>(settings).unwrap_or_default()
\*   .nushell_language_server: the derived Deserialize reads an object by
\* field name and an array by position; an array with more elements than the
\* struct has fields is an error, one with fewer leaves the field defaulted
PayloadSection(p) ==
    IF p.object
    THEN IF p.section = <<>> THEN DefaultSettings
         ELSE SettingsOrDefault(p.section[1])
    ELSE IF Len(p.items) = 1 THEN SettingsOrDefault(p.items[1])
    ELSE DefaultSettings

-----------------------------------------------------------------------------
(* OnceLock<bool> *)

OnceUnset == <<>>
OnceIsSet(l) == l # <<>>

\* Faulty variant of FlagOrFalse: an unset flag reads as true.
FlagOrTrue(l) == IF l = <<>> THEN TRUE ELSE l[1]

\* l.get().unwrap_or(&false)
FlagOrFalse(l) == IF l = <<>> THEN FALSE ELSE l[1]

-----------------------------------------------------------------------------
(* Tasks *)

\* kind is one of "initialize", "initialized", "did_open", "did_change",
\* "did_close", "did_change_configuration", "did_change_workspace_folders",
\* "shutdown", "completion", "hover", "goto_definition".
NoUri == ""

\* the handlers that return nothing and can get an Err: it is logged
Notifications == {"did_open", "did_change", "did_close",
                  "did_change_configuration"}

NewTask(kind, u) ==
    [ id |-> Len(tasks) + 1,  \* its place in the order of arrival
      kind |-> kind,
      uri |-> u,            \* the uri of the notification (NoUri if none)
      pc |-> "new",
      started |-> IF kind = "did_change" THEN now ELSE 0,
                            \* did_change: the time the request arrived
      cur |-> NoUri,        \* the uri validate_document is running for
      text |-> "",          \* the text validate_document read
      settings |-> <<>>,    \* what get_document_settings returned
      entered |-> {},       \* uris validate_document has been called for
      compiler_calls |-> 0, \* run_compiler calls made
      answer |-> <<>>,      \* what the client answered to its last round trip
      asked |-> <<>>,       \* while that round trip is under way: how many
                            \* configuration changes had arrived when it began
      pulls |-> 0,          \* client.configuration round trips made
      published |-> 0,      \* publish_diagnostics calls made
      todo |-> <<>>,        \* did_change_configuration: uris still to validate
      snapshot |-> {},      \* did_change_configuration: the uris collected
      registered |-> FALSE, \* initialized: register_capability was sent
      payload |-> <<>>,     \* did_change_configuration: <<params.settings>>
      stamped |-> FALSE,    \* throttled call wrote last_validated
      edit |-> <<>>,        \* did_open, did_change: <<text and version sent>>
      temp |-> "none",      \* the temp file of the last run_compiler call:
                            \* "none", "exists" or "deleted"
      paths |-> <<>>,       \* the paths of the temp files of its calls
      argv |-> <<>>,        \* the arguments of the last subprocess
      proc |-> "none",      \* its subprocess: "none", "running", "hung" (it
                            \* will not complete) or "exited"
      exit |-> <<>>,        \* <<exit status>> of the subprocess if it completed
      stdout |-> "none",    \* what it wrote, see Stdout
      compiler_result |-> "none",  \* what run_compiler returned
      logged |-> FALSE,     \* the handler logged an Err it got
      tried |-> "none",     \* did_open, did_change: the Err of try_did_open or
                            \* try_did_change, which is logged before the
                            \* validation
      cause |-> "none",     \* "lock" when the Err is a failed lock acquisition
      target |-> "none",    \* goto_definition: the file of the decoded answer
      location |-> <<>>,    \* goto_definition: <<the Location returned>>
      ranged |-> <<>>,      \* hover, goto_definition: the text that was written
                            \* to the temp file and the text of the document
                            \* whose position_at converted the answer's spans
      input |-> <<>>,       \* a conversion: what it was given
      output |-> <<>>,      \* a conversion: what it returned
      result |-> "none" ]   \* what the handler returned; for a notification,
                            \* "Ok" or the Err it logged

\* the handler returns res; its locals are dropped
Done(t, res) ==
    [t EXCEPT !.pc = "done", !.result = res, !.cur = NoUri, !.text = "",
              !.settings = <<>>, !.answer = <<>>, !.asked = <<>>,
              !.todo = <<>>]

\* Faulty variant of Fail: the handler of a notification returns without
\* logging the Err.
FailUnlogged(t, res) == Done(t, res)

\* an Err reaches the handler: a request returns it, a notification logs it
\* (log_message(ERROR, ..).await) and returns
Fail(t, res) ==
    IF t.kind \in Notifications
    THEN [Done(t, res) EXCEPT !.pc = "log_error"]
    ELSE Done(t, res)

\* pc is "done" or the .await the task is suspended on: "try_log" (the log of
\* the Err of try_did_open or try_did_change), "vd_nopub", "gds_global_log",
\* "gds_cache_log", "gds_fetch_log", "gds_pull", "gds_fallback", "write" (of
\* the temp file), "compiler" (the subprocess under the timeout), "publish",
\* "register", "register_log", "initialized_log", "log_error", "folders_log"
\* (the log of did_change_workspace_folders), "shutdown_log", "goto_log" (the
\* log of goto_definition for a file that does not exist).

\* fewer than n handlers have been invoked
Room(n) == Len(tasks) < n

Put(i, t) == tasks' = [tasks EXCEPT ![i] = t]

\* documents.documents().keys().cloned().collect(): the uris of S in key order
SortedSeq(S) == SelectSeq(UriOrderArgs, LAMBDA u : u \in S)

-----------------------------------------------------------------------------
(* The RwLock guards of the session                                        *)
(*                                                                         *)
(* A guard lives from the line that takes it to the end of its block or    *)
(* statement.  A task that is suspended on an .await holds the guards that *)
(* are alive at that line, and at the line of every call it is inside.     *)

ModRs == "backend/mod.rs"
LanguageServerRs == "backend/language_server.rs"
NuRs == "nu.rs"

Scope(file, lock, mode, first, last) ==
    [file |-> file, lock |-> lock, mode |-> mode, first |-> first, last |-> last]

\* Faulty variant of LockScopes: get_document_settings takes the read guard of
\* the global settings before it logs, and reads the cache without the block
\* around the read, so that this guard lives to the end of the function.
LockScopesGuardsKept ==
    { Scope(ModRs, "documents", "read", 35, 47),
      Scope(ModRs, "global_settings", "read", 51, 62),
      Scope(ModRs, "document_settings", "read", 72, 106),
      Scope(ModRs, "document_settings", "write", 95, 99),
      Scope(ModRs, "last_validated", "read", 125, 127),
      Scope(ModRs, "last_validated", "write", 135, 139),
      Scope(ModRs, "documents", "write", 143, 152),
      Scope(ModRs, "document_settings", "write", 160, 163),
      Scope(ModRs, "global_settings", "write", 167, 170),
      Scope(ModRs, "documents", "read", 175, 180),
      Scope(ModRs, "documents", "write", 190, 199),
      Scope(ModRs, "documents", "write", 203, 212),
      Scope(ModRs, "documents", "read", 227, 227),
      Scope(ModRs, "documents", "read", 239, 251),
      Scope(LanguageServerRs, "documents", "read", 174, 179),
      Scope(LanguageServerRs, "documents", "read", 203, 208),
      Scope(LanguageServerRs, "documents", "read", 241, 244),
      Scope(LanguageServerRs, "documents", "read", 260, 265),
      Scope(LanguageServerRs, "documents", "read", 280, 285) }

\* every guard of backend/mod.rs and backend/language_server.rs
LockScopes ==
    { Scope(ModRs, "documents", "read", 35, 47),
      Scope(ModRs, "global_settings", "read", 57, 62),
      Scope(ModRs, "document_settings", "read", 72, 77),
      Scope(ModRs, "document_settings", "write", 95, 99),
      Scope(ModRs, "last_validated", "read", 125, 127),
      Scope(ModRs, "last_validated", "write", 135, 139),
      Scope(ModRs, "documents", "write", 143, 152),
      Scope(ModRs, "document_settings", "write", 160, 163),
      Scope(ModRs, "global_settings", "write", 167, 170),
      Scope(ModRs, "documents", "read", 175, 180),
      Scope(ModRs, "documents", "write", 190, 199),
      Scope(ModRs, "documents", "write", 203, 212),
      Scope(ModRs, "documents", "read", 227, 227),
      Scope(ModRs, "documents", "read", 239, 251),
      Scope(LanguageServerRs, "documents", "read", 174, 179),
      Scope(LanguageServerRs, "documents", "read", 203, 208),
      Scope(LanguageServerRs, "documents", "read", 241, 244),
      Scope(LanguageServerRs, "documents", "read", 260, 265),
      Scope(LanguageServerRs, "documents", "read", 280, 285) }

\* the suspension points inside get_document_settings and validate_document
SettingsAwaits == {"gds_global_log", "gds_cache_log", "gds_fetch_log",
                   "gds_pull", "gds_fallback"}
CompilerAwaits == {"write", "compiler"}
ValidateAwaits == SettingsAwaits \cup CompilerAwaits \cup {"vd_nopub", "publish"}

Await(file, line, pcs) == [file |-> file, line |-> line, pcs |-> pcs]

\* every .await of the three files: its line and the suspension points of the
\* model that are at it or, for the .await of a call, inside the call
Awaits ==
    { Await(ModRs, 56, {"gds_global_log"}),
      Await(ModRs, 71, {"gds_cache_log"}),
      Await(ModRs, 85, {"gds_fetch_log"}),
      Await(ModRs, 92, {"gds_pull"}),
      Await(ModRs, 104, {"gds_fallback"}),
      Await(ModRs, 133, ValidateAwaits),
      Await(ModRs, 183, ValidateAwaits),
      Await(ModRs, 223, {"vd_nopub"}),
      Await(ModRs, 229, SettingsAwaits),
      Await(ModRs, 231, CompilerAwaits),
      Await(ModRs, 255, {"publish"}),
      Await(LanguageServerRs, 21, {"try_log"}),
      Await(LanguageServerRs, 23, ValidateAwaits),
      Await(LanguageServerRs, 26, {"log_error"}),
      Await(LanguageServerRs, 31, ValidateAwaits),
      Await(LanguageServerRs, 34, {"log_error"}),
      Await(LanguageServerRs, 47, {"folders_log"}),
      Await(LanguageServerRs, 54, {"log_error"}),
      Await(LanguageServerRs, 63, {"try_log"}),
      Await(LanguageServerRs, 65, ValidateAwaits),
      Await(LanguageServerRs, 68, {"log_error"}),
      Await(LanguageServerRs, 149, {"register"}),
      Await(LanguageServerRs, 156, {"register_log"}),
      Await(LanguageServerRs, 162, {"initialized_log"}),
      Await(LanguageServerRs, 168, {"shutdown_log"}),
      Await(LanguageServerRs, 181, SettingsAwaits),
      Await(LanguageServerRs, 191, CompilerAwaits),
      Await(LanguageServerRs, 210, SettingsAwaits),
      Await(LanguageServerRs, 220, CompilerAwaits),
      Await(LanguageServerRs, 237, {"goto_log"}),
      Await(LanguageServerRs, 267, SettingsAwaits),
      Await(LanguageServerRs, 274, CompilerAwaits),
      Await(NuRs, 257, {"write"}),
      Await(NuRs, 272, {"compiler"}) }

\* the values of pc
Pcs == ValidateAwaits \cup {"try_log", "register", "register_log",
                            "initialized_log", "log_error", "folders_log",
                            "shutdown_log", "goto_log", "done", "new"}

\* the guards alive at an .await that pc is at or inside
GuardsAt(pc) ==
    { <<sc.lock, sc.mode>> : sc \in
        { sc \in LockScopes :
            \E a \in Awaits : /\ pc \in a.pcs
                              /\ a.file = sc.file
                              /\ a.line \in sc.first .. sc.last } }

HeldAt == [pc \in Pcs |-> GuardsAt(pc)]

\* the guards a task suspended on pc holds
Held(pc) == HeldAt[pc]

\* lock can be taken in mode: no suspended task holds it in a way that
\* excludes that
Free(lock, mode) ==
    \A i \in DOMAIN tasks : \A h \in Held(tasks[i].pc) :
        h[1] = lock => (mode = "read" /\ h[2] = "read")

Locks == {"documents", "document_settings", "global_settings", "last_validated"}

\* lock.read() and lock.write() return Err(PoisonError)
Poisoned(lock) == lock \in poisoned

\* every lock of the set S can be taken in its mode, and is
Takes(S) == \A l \in S : Free(l[1], l[2]) /\ ~Poisoned(l[1])

\* the jsonrpc error a failed acquisition of lock in mode is mapped to
LockError(lock, mode) ==
    CASE lock = "documents" /\ mode = "read" -> "InvalidParams"
      [] lock = "documents" /\ mode = "write" -> "Internal"
      [] lock = "global_settings" /\ mode = "read" -> "InvalidParams"
      [] lock = "global_settings" /\ mode = "write" -> "Internal"
      [] lock = "document_settings" -> "Internal"
      [] lock = "last_validated" -> "Internal"

\* the acquisition of lock in mode fails in task t
FailOn(t, lock, mode) == Fail([t EXCEPT !.cause = "lock"], LockError(lock, mode))

-----------------------------------------------------------------------------
(* TextDocuments::listen *)

NoDocuments == <<>>

Tracked(docs, u) == u \in DOMAIN docs

\* listen("textDocument/didOpen"): insert or replace the record of u
ListenDidOpen(docs, u, text, version) ==
    [x \in DOMAIN docs \cup {u} |->
        IF x = u THEN [text |-> text, version |-> version] ELSE docs[x]]

\* Faulty variant of ListenDidChange: a version lower than the stored one is
\* not stored.
ListenDidChangeHighestVersion(docs, u, text, version) ==
    IF Tracked(docs, u)
    THEN [docs EXCEPT ![u] =
            [text |-> text,
             version |-> IF version < docs[u].version THEN docs[u].version
                         ELSE version]]
    ELSE docs

\* listen("textDocument/didChange"): update the record of u when it is tracked
ListenDidChange(docs, u, text, version) ==
    IF Tracked(docs, u)
    THEN [docs EXCEPT ![u] = [text |-> text, version |-> version]]
    ELSE docs

\* Faulty variant of ListenDidClose: the record stays.
ListenDidCloseKeeps(docs, u) == docs

\* listen("textDocument/didClose"): remove the record of u
ListenDidClose(docs, u) == [x \in DOMAIN docs \ {u} |-> docs[x]]

-----------------------------------------------------------------------------
(* Backend::validate_document, up to its first .await *)

\* Faulty variant of PublishDisabled: the capability check is skipped.
PublishNeverDisabled == FALSE

\* !can_publish_diagnostics.get().unwrap_or(&false)
PublishDisabled == ~FlagOrFalse(can_publish_diagnostics)

\* Faulty variant of LookupDisabled: the capability check is skipped.
LookupNeverDisabled == FALSE

\* !can_lookup_configuration.get().unwrap_or(&false)
LookupDisabled == ~FlagOrFalse(can_lookup_configuration)

\* get_document_settings(u) called by task t: the lookup flag is tested, then
\* the first log is awaited
SettingsStart(t, u) ==
    [t EXCEPT !.cur = u,
              !.pc = IF LookupDisabled THEN "gds_global_log" ELSE "gds_cache_log"]

\* validate_document(u) called by task t, the document store being docs: the
\* task as suspended on the first .await, or as finished when for_document
\* fails (the store cannot be read, or it does not hold u).
ValidateStart(t, u, docs) ==
    LET t1 == [t EXCEPT !.entered = @ \cup {u}, !.cur = u] IN
    IF PublishDisabled THEN [t1 EXCEPT !.pc = "vd_nopub"]
    ELSE IF Poisoned("documents") THEN FailOn(t1, "documents", "read")
    ELSE IF ~Tracked(docs, u) THEN Fail(t1, "InvalidParams")
    ELSE SettingsStart([t1 EXCEPT !.text = docs[u].text], u)

\* uri.scheme()
Scheme(u) == IF u = "untitled:one" THEN "untitled" ELSE "file"

\* uri.to_file_path(): Ok(path) as <<path>>, Err as <<>>
ToFilePath(u) ==
    CASE u = "file:///a.nu" -> <<"/a.nu">>
      [] u = "file:///b.nu" -> <<"/b.nu">>
      [] u = "file:///dir/c.nu" -> <<"/dir/c.nu">>
      [] u = "file:///" -> <<"/">>
      [] OTHER -> <<>>

\* file_path.parent(): Some(dir) as <<dir>>, None as <<>>
Parent(path) ==
    CASE path = "/dir/c.nu" -> <<"/dir">>
      [] path = "/" -> <<>>
      [] OTHER -> <<"/">>

\* the record separator
RecordSeparator == "\\x1e"

\* the flags each caller of run_compiler passes; the offset is the text of a
\* number
OffsetArg == "offset"
OperationFlags(kind) ==
    CASE kind = "completion" -> <<"--ide-complete", OffsetArg>>
      [] kind = "hover" -> <<"--ide-hover", OffsetArg>>
      [] kind = "goto_definition" -> <<"--ide-goto-def", OffsetArg>>
      [] OTHER -> <<"--ide-check">>

\* Faulty variant of IncludePaths: the configured directories come first.
IncludePathsDirsFirst(u, s) ==
    s.include_dirs \o
    (IF Scheme(u) = "file" /\ ToFilePath(u) # <<>>
     THEN Parent(ToFilePath(u)[1]) ELSE <<>>)

\* include_paths: the parent of the file of a file uri, then
\* settings.include_dirs
IncludePaths(u, s) ==
    (IF Scheme(u) = "file" /\ ToFilePath(u) # <<>>
     THEN Parent(ToFilePath(u)[1]) ELSE <<>>)
    \o s.include_dirs

\* include_paths.join(record_separator), as the sequence of its pieces
Join(paths, sep) ==
    [ k \in 1..(2 * Len(paths) - 1) |->
        IF k % 2 = 1 THEN paths[(k + 1) \div 2] ELSE sep ]

\* the flags handed to Command::args: run_compiler pushes the bound of a
\* check, the include paths when there are any, and the temp file
Argv(operation, s, u, temp_file) ==
    LET checked == IF \E k \in DOMAIN operation : operation[k] = "--ide-check"
                   THEN Append(operation, ToString(s.max_number_of_problems))
                   ELSE operation
        include_paths == IncludePaths(u, s)
        included == IF include_paths # <<>>
                    THEN checked \o <<"--include-path",
                                      Join(include_paths, RecordSeparator)>>
                    ELSE checked
    IN Append(included, temp_file)

\* Faulty variant of TempPath: one file for the process.
TempPathShared(t) == <<"tmp", 0, 0>>

\* Temp::new_file(): the path of a new file, which no other call is given
TempPath(t) == <<"tmp", t.id, t.compiler_calls + 1>>

\* Temp::new_file() succeeds or fails
TempFileCreated == BOOLEAN

\* run_compiler called by task t with the settings s, up to its first
\* .await.  A file uri that has no file path is an InvalidParams error; when
\* the temp file cannot be created the call returns an Internal error at
\* once; otherwise the file exists and the task is suspended on the write of
\* the text to it: no subprocess has been started.
RunCompiler(t, s, created) ==
    LET t1 == [t EXCEPT !.settings = <<s>>, !.compiler_calls = @ + 1,
                        !.exit = <<>>, !.stdout = "none"]
    IN IF Scheme(t.cur) = "file" /\ ToFilePath(t.cur) = <<>>
       THEN Fail([t1 EXCEPT !.temp = "none", !.proc = "none",
                            !.compiler_result = "InvalidParams"],
                 "InvalidParams")
       ELSE IF created
       THEN [t1 EXCEPT !.pc = "write", !.temp = "exists",
                       !.paths = Append(@, TempPath(t)),
                       !.proc = "none", !.compiler_result = "none"]
       ELSE Fail([t1 EXCEPT !.temp = "none", !.proc = "none",
                            !.compiler_result = "Internal"], "Internal")

-----------------------------------------------------------------------------
(* Backend::throttled_validate_document *)

\* Faulty variant of Throttled: the gap is compared with half the interval.
ThrottledHalf(then) == now - then < THROTTLE_MS \div 2

\* then.elapsed() < Duration::from_millis(500)
Throttled(then) == now - then < THROTTLE_MS

\* Faulty variant of CompletionStamp: the arrival time of the request.
ArrivalStamp(t) == t.started

\* *then = Instant::now(), executed after validate_document returned Ok
CompletionStamp(t) == now

\* Faulty variant of ThrottledValidateStart: an edit inside the interval is
\* validated all the same.
ThrottledValidateAlways(t, u, docs) == ValidateStart(t, u, docs)

\* throttled_validate_document(u) called by task t, up to its first .await:
\* the throttle clock is read (an Err when its lock is poisoned) and compared
ThrottledValidateStart(t, u, docs) ==
    IF Poisoned("last_validated") THEN FailOn(t, "last_validated", "read")
    ELSE IF Throttled(last_validated) THEN Done(t, "Ok")
    ELSE ValidateStart(t, u, docs)

\* Faulty variant of DidOpenValidation: the open is validated through the
\* throttle.
DidOpenValidationThrottled(t, u, docs) == ThrottledValidateStart(t, u, docs)

\* did_open: self.validate_document(&uri)
DidOpenValidation(t, u, docs) == ValidateStart(t, u, docs)

\* What the caller of validate_document does when it returned Ok.
AfterValidateOk(t) ==
    CASE t.kind = "did_change" -> Done([t EXCEPT !.stamped = TRUE], "Ok")
      [] t.kind = "did_change_configuration" /\ t.todo # <<>> ->
            ValidateStart([t EXCEPT !.todo = Tail(@)], Head(t.todo), documents)
      [] OTHER -> Done(t, "Ok")

\* validate_document returned Ok to task i, whose record is then t:
\* throttled_validate_document writes the throttle clock, the loop of
\* try_did_change_configuration calls validate_document for the next uri,
\* did_open returns
ValidateOk(i, t) ==
    /\ Takes(IF t.kind = "did_change" THEN {<<"last_validated", "write">>}
             ELSE {})
    /\ last_validated' = IF t.kind = "did_change" THEN CompletionStamp(t)
                         ELSE last_validated
    /\ Put(i, AfterValidateOk(t))

-----------------------------------------------------------------------------
(* Init *)

Init ==
    /\ now = 0
    /\ can_change_configuration = OnceUnset
    /\ can_lookup_configuration = OnceUnset
    /\ can_publish_diagnostics = OnceUnset
    /\ documents = NoDocuments
    /\ document_settings = <<>>
    /\ global_settings = DefaultSettings
    /\ last_validated = 0
    /\ poisoned = {}
    /\ tasks = <<>>
    /\ diagnostics = <<>>

\* time passes
Tick ==
    /\ now + TickMs <= MaxNow
    /\ now' = now + TickMs
    /\ UNCHANGED <<poisoned, flags, documents, document_settings, global_settings,
                   last_validated, tasks, diagnostics>>

-----------------------------------------------------------------------------
(* Handlers of src/src/backend/language_server.rs, up to their first .await *)

Capabilities == [change : BOOLEAN, lookup : BOOLEAN, publish : BOOLEAN]

\* initialize: each OnceLock::set(..).expect(..) panics when the flag is set
Initialize(caps) ==
    /\ LET ok1 == ~OnceIsSet(can_change_configuration)
           ok2 == ok1 /\ ~OnceIsSet(can_lookup_configuration)
           ok3 == ok2 /\ ~OnceIsSet(can_publish_diagnostics)
       IN /\ can_change_configuration' =
                IF ok1 THEN <<caps.change>> ELSE can_change_configuration
          /\ can_lookup_configuration' =
                IF ok2 THEN <<caps.lookup>> ELSE can_lookup_configuration
          /\ can_publish_diagnostics' =
                IF ok3 THEN <<caps.publish>> ELSE can_publish_diagnostics
          /\ tasks' = Append(tasks, Done(NewTask("initialize", NoUri),
                                         IF ok3 THEN "Ok" ELSE "panic"))
    /\ UNCHANGED <<poisoned, now, documents, document_settings, global_settings,
                   last_validated, diagnostics>>

\* initialized: register for configuration changes when the client supports
\* it, otherwise go on to the "server initialized!" log
Initialized ==
    /\ LET t == NewTask("initialized", NoUri) IN
       tasks' = Append(tasks,
                  IF FlagOrFalse(can_change_configuration)
                  THEN [t EXCEPT !.registered = TRUE, !.pc = "register"]
                  ELSE [t EXCEPT !.pc = "initialized_log"])
    /\ UNCHANGED <<poisoned, now, flags, documents, document_settings, global_settings,
                   last_validated, diagnostics>>

\* what client.register_capability(..).await yields
RegisterAnswers == {"Ok", "Err"}

\* the client answered the registration: an Err is logged, then (or at once)
\* the "server initialized!" log is sent
RegisterDone(i, answer) ==
    /\ i \in DOMAIN tasks
    /\ tasks[i].pc = "register"
    /\ Put(i, [tasks[i] EXCEPT !.pc = IF answer = "Err" THEN "register_log"
                                      ELSE "initialized_log"])
    /\ UNCHANGED <<poisoned, now, flags, documents, document_settings, global_settings,
                   last_validated, diagnostics>>

\* the "unable to register capability" log was sent
RegisterLogged(i) ==
    /\ i \in DOMAIN tasks
    /\ tasks[i].pc = "register_log"
    /\ Put(i, [tasks[i] EXCEPT !.pc = "initialized_log"])
    /\ UNCHANGED <<poisoned, now, flags, documents, document_settings, global_settings,
                   last_validated, diagnostics>>

\* the "server initialized!" log was sent: initialized returns
InitializedLogged(i) ==
    /\ i \in DOMAIN tasks
    /\ tasks[i].pc = "initialized_log"
    /\ Put(i, Done(tasks[i], "Ok"))
    /\ UNCHANGED <<poisoned, now, flags, documents, document_settings, global_settings,
                   last_validated, diagnostics>>

\* did_open: try_did_open, then validate_document
DidOpen(u, e) ==
    /\ Takes({<<"documents", "write">>})
    /\ documents' = ListenDidOpen(documents, u, e.text, e.version)
    /\ tasks' = Append(tasks,
                  DidOpenValidation([NewTask("did_open", u) EXCEPT !.edit = <<e>>],
                                    u, documents'))
    /\ UNCHANGED <<poisoned, now, flags, document_settings, global_settings,
                   last_validated, diagnostics>>

\* did_change: try_did_change, then throttled_validate_document
DidChange(u, e) ==
    /\ Takes({<<"documents", "write">>})
    /\ documents' = ListenDidChange(documents, u, e.text, e.version)
    /\ tasks' = Append(tasks,
                  ThrottledValidateStart(
                      [NewTask("did_change", u) EXCEPT !.edit = <<e>>],
                      u, documents'))
    /\ UNCHANGED <<poisoned, now, flags, document_settings, global_settings,
                   last_validated, diagnostics>>

\* did_change_workspace_folders: the added and removed folders are logged,
\* nothing is stored
DidChangeWorkspaceFolders ==
    /\ tasks' = Append(tasks,
                  [NewTask("did_change_workspace_folders", NoUri) EXCEPT
                      !.pc = "folders_log"])
    /\ UNCHANGED <<poisoned, now, flags, documents, document_settings,
                   global_settings, last_validated, diagnostics>>

\* shutdown: "server shutdown...!" is logged, nothing is stored
Shutdown ==
    /\ tasks' = Append(tasks,
                  [NewTask("shutdown", NoUri) EXCEPT !.pc = "shutdown_log"])
    /\ UNCHANGED <<poisoned, now, flags, documents, document_settings,
                   global_settings, last_validated, diagnostics>>

\* the log of did_change_workspace_folders was sent: the handler returns
FoldersLogged(i) ==
    /\ i \in DOMAIN tasks /\ tasks[i].pc = "folders_log"
    /\ tasks' = [tasks EXCEPT ![i] = Done(tasks[i], "Ok")]
    /\ UNCHANGED <<poisoned, now, flags, documents, document_settings,
                   global_settings, last_validated, diagnostics>>

\* the log of shutdown was sent: the handler returns Ok(())
ShutdownLogged(i) ==
    /\ i \in DOMAIN tasks /\ tasks[i].pc = "shutdown_log"
    /\ tasks' = [tasks EXCEPT ![i] = Done(tasks[i], "Ok")]
    /\ UNCHANGED <<poisoned, now, flags, documents, document_settings,
                   global_settings, last_validated, diagnostics>>

\* did_close: try_did_close
DidClose(u) ==
    /\ Takes({<<"documents", "write">>})
    /\ documents' = ListenDidClose(documents, u)
    /\ tasks' = Append(tasks, Done(NewTask("did_close", u), "Ok"))
    /\ UNCHANGED <<poisoned, now, flags, document_settings, global_settings,
                   last_validated, diagnostics>>

\* Faulty variant of ConfigurationStores: both stores are reset.
ConfigurationStoresBoth(p) ==
    [ cache |-> <<>>, global |-> PayloadSection(p) ]

\* try_did_change_configuration, the settings stores after the notification
ConfigurationStores(p) ==
    IF FlagOrFalse(can_lookup_configuration)
    THEN [ cache |-> <<>>, global |-> global_settings ]
    ELSE [ cache |-> document_settings, global |-> PayloadSection(p) ]

\* did_change_configuration: try_did_change_configuration up to the first
\* .await of its revalidation loop
DidChangeConfiguration(p) ==
    /\ Takes({IF FlagOrFalse(can_lookup_configuration)
               THEN <<"document_settings", "write">>
               ELSE <<"global_settings", "write">>,
              <<"documents", "read">>})
    /\ document_settings' = ConfigurationStores(p).cache
    /\ global_settings' = ConfigurationStores(p).global
    /\ LET uris == SortedSeq(DOMAIN documents)
           t == [NewTask("did_change_configuration", NoUri)
                    EXCEPT !.snapshot = DOMAIN documents, !.payload = <<p>>]
       IN tasks' = Append(tasks,
                     IF uris = <<>> THEN Done(t, "Ok")
                     ELSE ValidateStart([t EXCEPT !.todo = Tail(uris)],
                                        Head(uris), documents))
    /\ UNCHANGED <<poisoned, now, flags, documents, last_validated, diagnostics>>

\* Faulty variant of Request: the settings are resolved before the document is
\* looked up.
RequestSettingsFirst(kind, u) ==
    /\ tasks' = Append(tasks, SettingsStart(NewTask(kind, u), u))
    /\ UNCHANGED <<poisoned, now, flags, documents, document_settings, global_settings,
                   last_validated, diagnostics>>

\* completion, hover and goto_definition begin alike: for_document (the text
\* and the offset of the position), then get_document_settings up to its
\* first .await
Request(kind, u) ==
    /\ Takes({<<"documents", "read">>})
    /\ LET t == NewTask(kind, u) IN
       tasks' = Append(tasks,
                  IF ~Tracked(documents, u) THEN Fail(t, "InvalidParams")
                  ELSE SettingsStart([t EXCEPT !.text = documents[u].text], u))
    /\ UNCHANGED <<poisoned, now, flags, documents, document_settings, global_settings,
                   last_validated, diagnostics>>

Completion(u) == Request("completion", u)

Hover(u) == Request("hover", u)

GotoDefinition(u) == Request("goto_definition", u)

-----------------------------------------------------------------------------
(* The continuations of validate_document after each .await *)

Waiting(i, pc) == i \in DOMAIN tasks /\ tasks[i].pc = pc

\* the "client did not report diagnostic capability" log was sent
NoPublishDone(i) ==
    /\ Waiting(i, "vd_nopub")
    /\ ValidateOk(i, tasks[i])
    /\ UNCHANGED <<poisoned, now, flags, documents, document_settings, global_settings,
                   diagnostics>>

\* get_document_settings without per-resource lookup: after the log, read and
\* return the global settings; run_compiler starts
SettingsGlobal(i) ==
    /\ Takes({<<"global_settings", "read">>})
    /\ Waiting(i, "gds_global_log")
    /\ \E created \in TempFileCreated :
          Put(i, RunCompiler(tasks[i], global_settings, created))
    /\ UNCHANGED <<poisoned, now, flags, documents, document_settings, global_settings,
                   last_validated, diagnostics>>

\* the did_change_configuration notifications that have arrived
ConfigurationChanges ==
    Cardinality({ j \in DOMAIN tasks :
                    tasks[j].kind = "did_change_configuration" })

\* Faulty variant of CacheGet: every lookup is a miss.
CacheGetNothing(cache, u) == <<>>

\* document_settings.get(uri): Some(settings) as <<settings>>, None as <<>>
CacheGet(cache, u) == IF u \in DOMAIN cache THEN <<cache[u]>> ELSE <<>>

\* Faulty variant of CacheInsert: nothing is stored.
CacheInsertNothing(cache, u, s) == cache

\* document_settings.insert(uri.clone(), settings.clone())
CacheInsert(cache, u, s) ==
    [x \in DOMAIN cache \cup {u} |-> IF x = u THEN s ELSE cache[x]]

\* get_document_settings with per-resource lookup: after the log, read the
\* cache; a hit is returned, a miss goes on to the log that precedes the
\* request to the client
SettingsCache(i) ==
    /\ Takes({<<"document_settings", "read">>})
    /\ Waiting(i, "gds_cache_log")
    /\ LET t == tasks[i] IN
       \E created \in TempFileCreated :
          Put(i, IF CacheGet(document_settings, t.cur) # <<>>
                 THEN RunCompiler(t, CacheGet(document_settings, t.cur)[1],
                                  created)
                 ELSE [t EXCEPT !.pc = "gds_fetch_log"])
    /\ UNCHANGED <<poisoned, now, flags, documents, document_settings, global_settings,
                   last_validated, diagnostics>>

\* the "fetching per-document settings for cache" log was sent: the client is
\* asked for the configuration of the uri
SettingsFetch(i) ==
    /\ Waiting(i, "gds_fetch_log")
    /\ Put(i, [tasks[i] EXCEPT !.pulls = @ + 1,
                               !.asked = <<ConfigurationChanges>>,
                               !.pc = "gds_pull"])
    /\ UNCHANGED <<poisoned, now, flags, documents, document_settings, global_settings,
                   last_validated, diagnostics>>

\* what client.configuration(..).await yields: an error, no value, or a value
PullAnswers == {"error", "none"} \cup SettingsJson

\* the answer of the client to the configuration request arrives
SettingsPull(i, answer) ==
    /\ Takes(IF answer \in SettingsJson
             THEN {<<"document_settings", "write">>} ELSE {})
    /\ Waiting(i, "gds_pull")
    /\ LET t == [tasks[i] EXCEPT !.answer = <<answer>>, !.asked = <<>>]
           s == SettingsOrDefault(answer)
       IN CASE answer = "error" ->
                 /\ Put(i, Fail(t, "ClientError"))
                 /\ UNCHANGED document_settings
            [] answer = "none" ->
                 /\ Put(i, [t EXCEPT !.pc = "gds_fallback"])
                 /\ UNCHANGED document_settings
            [] OTHER ->
                 /\ document_settings' =
                       CacheInsert(document_settings, t.cur, s)
                 /\ \E created \in TempFileCreated :
                       Put(i, RunCompiler(t, s, created))
    /\ UNCHANGED <<poisoned, now, flags, documents, global_settings, last_validated,
                   diagnostics>>

\* the "fallback, returning default settings" log was sent
SettingsFallback(i) ==
    /\ Waiting(i, "gds_fallback")
    /\ \E created \in TempFileCreated :
          Put(i, RunCompiler(tasks[i], DefaultSettings, created))
    /\ UNCHANGED <<poisoned, now, flags, documents, document_settings, global_settings,
                   last_validated, diagnostics>>

\* How run_compiler ends once the temp file exists: the write of the temp
\* file fails, or the process cannot be started (both in TempFileWritten);
\* the timeout elapses first; or the process completes, with an exit status
\* and an output (CompilerReturn).  The output is valid UTF-8
\* holding the JSON the caller decodes ("ok"), JSON of a goto-definition answer
\* without a usable target file ("ok_no_target") or with a file that is not
\* on disk ("ok_missing"), something else ("ok_bad_json"), or it is not valid
\* UTF-8.
CompilerOutcomes == {"ok", "ok_exit1", "ok_no_target", "ok_missing",
                     "ok_bad_json", "write_failed", "spawn_failed", "timeout",
                     "not_utf8", "not_utf8_exit1"}

\* the subprocess completed within the timeout
Completed(out) == out \notin {"write_failed", "spawn_failed", "timeout"}

\* output.status of a completed subprocess
ExitStatus(out) == IF out \in {"ok_exit1", "not_utf8_exit1"} THEN 1 ELSE 0

\* output.stdout of a completed subprocess
Stdout(out) ==
    CASE out \in {"ok", "ok_exit1"} -> "json"
      [] out = "ok_no_target" -> "no_target"
      [] out = "ok_missing" -> "missing"
      [] out = "ok_bad_json" -> "bad_json"
      [] out \in {"not_utf8", "not_utf8_exit1"} -> "not_utf8"
      [] OTHER -> "none"

\* the Err of run_compiler
CompilerError(out) ==
    CASE Stdout(out) = "not_utf8" -> "Parse"
      [] OTHER -> "Internal"

\* Faulty variant of CompilerOk: a non-zero exit status is an error.
CompilerOkOnSuccess(out) ==
    Completed(out) /\ Stdout(out) # "not_utf8" /\ ExitStatus(out) = 0

\* run_compiler returns Ok: String::from_utf8(output.stdout) succeeded; the
\* exit status is not looked at
CompilerOk(out) == Completed(out) /\ Stdout(out) # "not_utf8"

\* Faulty variant of TempFileAfterReturn: the file is removed on the Ok path
\* only.
TempFileRemovedOnOk(out) == IF CompilerOk(out) THEN "deleted" ELSE "exists"

\* the temp file when run_compiler has returned: temp_file is dropped on every
\* path out of the function, and dropping a Temp removes its file
TempFileAfterReturn(out) == "deleted"

\* the subprocess when run_compiler has returned: a timeout drops the future
\* that waits for it and nothing waits for it again
ProcessAfterReturn(t, out) ==
    CASE out = "timeout" -> t.proc
      [] Completed(out) -> "exited"
      [] OTHER -> "none"

\* Faulty variant of TimeoutFires: the subprocess is awaited without a timeout.
TimeoutNever(t) == FALSE

\* timeout(settings.max_nushell_invocation_time, ..): the timer can elapse
\* while the subprocess has not completed
TimeoutFires(t) == TRUE

\* the outcome out is possible for the call task t is suspended on: the
\* write of the temp file is under no timeout; when it is answered the write
\* has failed or, in the same poll, Command::output() could not start the
\* process; the timer covers the subprocess that was started
Possible(t, out) ==
    CASE out \in {"write_failed", "spawn_failed"} -> t.pc = "write"
      [] out = "timeout" -> t.pc = "compiler" /\ TimeoutFires(t)
      [] OTHER -> t.pc = "compiler" /\ t.proc # "hung"

\* what the task knows when run_compiler has returned
Returned(t, out) ==
    [t EXCEPT !.temp = TempFileAfterReturn(out),
              !.argv = <<>>,
              !.answer = <<>>,
              !.proc = ProcessAfterReturn(t, out),
              !.exit = IF Completed(out) THEN <<ExitStatus(out)>> ELSE <<>>,
              !.stdout = Stdout(out),
              !.compiler_result = IF CompilerOk(out) THEN "Ok"
                                  ELSE CompilerError(out)]

\* what the poll that finds the write answered ends in: the subprocess is
\* started and awaited, or run_compiler returns an Err at once
WriteOutcomes == {"spawned", "write_failed", "spawn_failed"}

\* fs::write(&temp_file, text).await returns: the text is in the file, the
\* path of the file becomes the last argument and the subprocess is started
\* under the timeout; or the write failed, or the write succeeded and the
\* process could not be started, and run_compiler returns an Internal error
\* without a subprocess
TempFileWritten(i, out) ==
    /\ Waiting(i, "write")
    /\ out = "spawned" \/ Possible(tasks[i], out)
    /\ LET t == tasks[i] IN
       Put(i, IF out = "spawned"
              THEN [t EXCEPT !.pc = "compiler",
                             !.argv = Argv(OperationFlags(t.kind), t.settings[1],
                                           t.cur, t.paths[Len(t.paths)]),
                             !.proc = "running"]
              ELSE Fail(Returned(t, out), CompilerError(out)))
    /\ UNCHANGED <<poisoned, now, flags, documents, document_settings, global_settings,
                   last_validated, diagnostics>>

\* Faulty variant of PublishGuard: a validation publishes only when the text
\* it checked is still the text of the document.
PublishIfCurrent(t) == t.text = documents[t.cur].text

\* validate_document publishes whatever it computed: nothing compares the
\* text it read with the document as it is now
PublishGuard(t) == TRUE

\* run_compiler returns.  In validate_document an Ok is decoded line by line
\* (lines that do not parse are dropped), the diagnostics are converted
\* against the document as it is now and publish_diagnostics is called.
\* completion decodes the output; hover and goto_definition decode it and
\* convert the spans against the document as it is now; goto_definition
\* answers nothing for an answer without a target and, after a log, for a
\* file that does not exist.
\* the second for_document of a request: the spans of the answer are
\* converted with position_at of the document as it is when the compiler has
\* returned
Ranged(t, docs) ==
    [t EXCEPT !.ranged = <<[written |-> t.text,
                            converted |-> docs[t.cur].text]>>]

\* the caller of kind, given the outcome out, calls for_document after
\* run_compiler: validate_document always, hover when the output decodes,
\* goto_definition when the output decodes to a file that is on disk,
\* completion never
ReadsDocuments(kind, out) ==
    /\ CompilerOk(out)
    /\ CASE kind = "completion" -> FALSE
         [] kind \in {"hover", "goto_definition"} -> Stdout(out) = "json"
         [] OTHER -> TRUE

CompilerReturn(i, out) ==
    /\ Waiting(i, "compiler")
    /\ Possible(tasks[i], out)
    /\ Takes(IF ReadsDocuments(tasks[i].kind, out)
             THEN {<<"documents", "read">>} ELSE {})
    /\ LET t == Returned(tasks[i], out) IN
       IF ~CompilerOk(out)
       THEN /\ Put(i, Fail(t, CompilerError(out)))
            /\ UNCHANGED diagnostics
       ELSE IF t.kind = "completion"
       THEN \* IdeComplete::try_from(output)?
            /\ Put(i, IF Stdout(out) = "json" THEN Done(t, "Ok")
                      ELSE Fail(t, "Parse"))
            /\ UNCHANGED diagnostics
       ELSE IF t.kind = "hover"
       THEN /\ Put(i, IF Stdout(out) # "json" THEN Fail(t, "Parse")
                      ELSE IF ~Tracked(documents, t.cur)
                      THEN Fail(t, "InvalidParams")
                      ELSE Done(Ranged(t, documents), "Ok"))
            /\ UNCHANGED diagnostics
       ELSE IF t.kind = "goto_definition"
       THEN /\ Put(i, IF Stdout(out) = "bad_json" THEN Fail(t, "Parse")
                      ELSE IF Stdout(out) = "no_target" THEN Done(t, "Ok")
                      ELSE IF Stdout(out) = "missing"
                      THEN [t EXCEPT !.pc = "goto_log"]
                      ELSE IF ~Tracked(documents, t.cur)
                      THEN Fail(t, "InvalidParams")
                      ELSE Done(Ranged(t, documents), "Ok"))
            /\ UNCHANGED diagnostics
       ELSE IF ~Tracked(documents, t.cur)
       THEN /\ Put(i, Fail(t, "InvalidParams"))
            /\ UNCHANGED diagnostics
       ELSE IF ~PublishGuard(t)
       THEN /\ Put(i, [t EXCEPT !.pc = "publish"])
            /\ UNCHANGED diagnostics
       ELSE /\ diagnostics' =
                 [x \in DOMAIN diagnostics \cup {t.cur} |->
                     IF x = t.cur
                     THEN [text |-> t.text,
                           ranged |-> documents[t.cur].text,
                           version |-> documents[t.cur].version]
                     ELSE diagnostics[x]]
            /\ Put(i, [t EXCEPT !.published = @ + 1, !.pc = "publish"])
    /\ UNCHANGED <<poisoned, now, flags, documents, document_settings, global_settings,
                   last_validated>>

\* the subprocess of the call task i is suspended on stops making progress:
\* Command::output() will not complete
Hang(i) ==
    /\ Waiting(i, "compiler")
    /\ tasks[i].proc = "running"
    /\ Put(i, [tasks[i] EXCEPT !.proc = "hung"])
    /\ UNCHANGED <<poisoned, now, flags, documents, document_settings, global_settings,
                   last_validated, diagnostics>>

\* goto_definition: "File .. does not exist" was logged, the handler returns
\* Ok(None)
GotoLogged(i) ==
    /\ Waiting(i, "goto_log")
    /\ Put(i, Done(tasks[i], "Ok"))
    /\ UNCHANGED <<poisoned, now, flags, documents, document_settings, global_settings,
                   last_validated, diagnostics>>

\* publish_diagnostics was sent: validate_document returns Ok
PublishDone(i) ==
    /\ Waiting(i, "publish")
    /\ ValidateOk(i, tasks[i])
    /\ UNCHANGED <<poisoned, now, flags, documents, document_settings, global_settings,
                   diagnostics>>

\* the handler of a notification has logged the Err and returns
ErrorLogged(i) ==
    /\ Waiting(i, "log_error")
    /\ Put(i, [tasks[i] EXCEPT !.pc = "done", !.logged = TRUE])
    /\ UNCHANGED <<poisoned, now, flags, documents, document_settings, global_settings,
                   last_validated, diagnostics>>

\* the positions of the first n handler invocations
Slots(n) == 1..n

\* Every handler with every input, MaxTasks invocations.
Next ==
    \/ Tick
    \/ \E caps \in Capabilities : Room(MaxTasks) /\ Initialize(caps)
    \/ Room(MaxTasks) /\ Initialized
    \/ \E u \in Uris, e \in Edits : Room(MaxTasks) /\ DidOpen(u, e)
    \/ \E u \in Uris, e \in Edits : Room(MaxTasks) /\ DidChange(u, e)
    \/ \E u \in Uris : Room(MaxTasks) /\ DidClose(u)
    \/ Room(MaxTasks) /\ DidChangeWorkspaceFolders
    \/ Room(MaxTasks) /\ Shutdown
    \/ \E p \in Payloads : Room(MaxTasks) /\ DidChangeConfiguration(p)
    \/ \E u \in Uris : Room(MaxTasks) /\ Completion(u)
    \/ \E u \in Uris : Room(MaxTasks) /\ Hover(u)
    \/ \E u \in Uris : Room(MaxTasks) /\ GotoDefinition(u)
    \/ \E i \in Slots(MaxTasks), answer \in RegisterAnswers :
          RegisterDone(i, answer)
    \/ \E i \in Slots(MaxTasks) : RegisterLogged(i)
    \/ \E i \in Slots(MaxTasks) : InitializedLogged(i)
    \/ \E i \in Slots(MaxTasks) : FoldersLogged(i)
    \/ \E i \in Slots(MaxTasks) : ShutdownLogged(i)
    \/ \E i \in Slots(MaxTasks) : GotoLogged(i)
    \/ \E i \in Slots(MaxTasks) : NoPublishDone(i)
    \/ \E i \in Slots(MaxTasks) : SettingsGlobal(i)
    \/ \E i \in Slots(MaxTasks), out \in WriteOutcomes :
          TempFileWritten(i, out)
    \/ \E i \in Slots(MaxTasks) : SettingsCache(i)
    \/ \E i \in Slots(MaxTasks) : SettingsFetch(i)
    \/ \E i \in Slots(MaxTasks), answer \in PullAnswers : SettingsPull(i, answer)
    \/ \E i \in Slots(MaxTasks) : SettingsFallback(i)
    \/ \E i \in Slots(MaxTasks), out \in CompilerOutcomes : CompilerReturn(i, out)
    \/ \E i \in Slots(MaxTasks) : PublishDone(i)
    \/ \E i \in Slots(MaxTasks) : ErrorLogged(i)

Spec == Init /\ [][Next]_vars

-----------------------------------------------------------------------------
(* The throttle: a client that publishes diagnostics and has no per-resource *)
(* configuration; MaxTasksThrottle invocations of initialize, did_open (of   *)
(* the first uri), did_change (of any uri) and did_change_configuration,     *)
(* under the clock.                                                          *)

CapsThrottle == { c \in Capabilities : ~c.change /\ ~c.lookup /\ c.publish }
FirstEdit == [text |-> "a", version |-> 1]
NextEdit == [text |-> "b", version |-> 2]
PayloadAlt == [object |-> TRUE, section |-> <<"alt">>, items |-> <<>>]
PayloadMalformed == [object |-> TRUE, section |-> <<"malformed">>, items |-> <<>>]
PayloadNotObject == [object |-> FALSE, section |-> <<>>, items |-> <<>>]
PayloadArray == [object |-> FALSE, section |-> <<>>, items |-> <<"alt">>]
OutcomesShort == {"ok", "timeout"}

NextThrottle ==
    \/ Tick
    \/ \E caps \in CapsThrottle : Room(MaxTasksThrottle) /\ Initialize(caps)
    \/ Room(MaxTasksThrottle) /\ DidOpen(UriOrder[1], FirstEdit)
    \/ \E u \in Uris : Room(MaxTasksThrottle) /\ DidChange(u, NextEdit)
    \/ Room(MaxTasksThrottle) /\ DidChangeConfiguration(PayloadAlt)
    \/ \E i \in Slots(MaxTasksThrottle) : NoPublishDone(i)
    \/ \E i \in Slots(MaxTasksThrottle) : SettingsGlobal(i)
    \/ \E i \in Slots(MaxTasksThrottle) : TempFileWritten(i, "spawned")
    \/ \E i \in Slots(MaxTasksThrottle), out \in OutcomesShort :
          CompilerReturn(i, out)
    \/ \E i \in Slots(MaxTasksThrottle) : PublishDone(i)
    \/ \E i \in Slots(MaxTasksThrottle) : ErrorLogged(i)

SpecThrottle == Init /\ [][NextThrottle]_vars

-----------------------------------------------------------------------------
(* The settings stores: MaxTasksConfig invocations of initialize, did_open,  *)
(* did_close and did_change_configuration, the clock standing still.         *)

CapsConfig == { c \in Capabilities : ~c.change /\ c.publish }
PayloadsConfig == {PayloadAlt, PayloadMalformed, PayloadNotObject, PayloadArray}
AnswersConfig == {"none", "alt", "malformed"}

NextConfig ==
    \/ \E caps \in CapsConfig : Room(MaxTasksConfig) /\ Initialize(caps)
    \/ \E u \in Uris : Room(MaxTasksConfig) /\ DidOpen(u, FirstEdit)
    \/ \E u \in Uris : Room(MaxTasksConfig) /\ DidClose(u)
    \/ \E p \in PayloadsConfig : Room(MaxTasksConfig) /\ DidChangeConfiguration(p)
    \/ \E i \in Slots(MaxTasksConfig) : NoPublishDone(i)
    \/ \E i \in Slots(MaxTasksConfig) : SettingsGlobal(i)
    \/ \E i \in Slots(MaxTasksConfig) : TempFileWritten(i, "spawned")
    \/ \E i \in Slots(MaxTasksConfig) : SettingsCache(i)
    \/ \E i \in Slots(MaxTasksConfig) : SettingsFetch(i)
    \/ \E i \in Slots(MaxTasksConfig), answer \in AnswersConfig :
          SettingsPull(i, answer)
    \/ \E i \in Slots(MaxTasksConfig) : SettingsFallback(i)
    \/ \E i \in Slots(MaxTasksConfig), out \in OutcomesShort :
          CompilerReturn(i, out)
    \/ \E i \in Slots(MaxTasksConfig) : PublishDone(i)
    \/ \E i \in Slots(MaxTasksConfig) : ErrorLogged(i)

SpecConfig == Init /\ [][NextConfig]_vars

-----------------------------------------------------------------------------
(* The revalidation loop of a configuration change: MaxTasksRevalidate       *)
(* invocations of initialize, did_open and did_change_configuration with a   *)
(* client that publishes diagnostics and has no per-resource configuration,  *)
(* the clock standing still.                                                 *)

NextRevalidate ==
    \/ \E caps \in CapsThrottle : Room(MaxTasksRevalidate) /\ Initialize(caps)
    \/ \E u \in Uris : Room(MaxTasksRevalidate) /\ DidOpen(u, FirstEdit)
    \/ Room(MaxTasksRevalidate) /\ DidChangeConfiguration(PayloadAlt)
    \/ \E i \in Slots(MaxTasksRevalidate) : NoPublishDone(i)
    \/ \E i \in Slots(MaxTasksRevalidate) : SettingsGlobal(i)
    \/ \E i \in Slots(MaxTasksRevalidate) : TempFileWritten(i, "spawned")
    \/ \E i \in Slots(MaxTasksRevalidate), out \in OutcomesShort :
          CompilerReturn(i, out)
    \/ \E i \in Slots(MaxTasksRevalidate) : PublishDone(i)
    \/ \E i \in Slots(MaxTasksRevalidate) : ErrorLogged(i)

SpecRevalidate == Init /\ [][NextRevalidate]_vars

-----------------------------------------------------------------------------
(* The document store: MaxTasksDocs invocations of did_open, did_change,     *)
(* did_close and completion before any initialize, so that validation is the *)
(* no-op of a client without diagnostics; the clock standing still.          *)

NextDocs ==
    \/ \E u \in Uris, e \in Edits : Room(MaxTasksDocs) /\ DidOpen(u, e)
    \/ \E u \in Uris : Room(MaxTasksDocs) /\ DidChange(u, NextEdit)
    \/ \E u \in Uris : Room(MaxTasksDocs) /\ DidClose(u)
    \/ \E u \in Uris : Room(MaxTasksDocs) /\ Completion(u)
    \/ \E i \in Slots(MaxTasksDocs) : NoPublishDone(i)
    \/ \E i \in Slots(MaxTasksDocs) : SettingsGlobal(i)
    \/ \E i \in Slots(MaxTasksDocs) : TempFileWritten(i, "spawned")
    \/ \E i \in Slots(MaxTasksDocs), out \in OutcomesShort :
          CompilerReturn(i, out)

SpecDocs == Init /\ [][NextDocs]_vars

-----------------------------------------------------------------------------
(* The subprocess: MaxTasksLive invocations of initialize, did_open and      *)
(* completion with a subprocess that can hang.  The runtime polls the timer  *)
(* of tokio::time::timeout and the subprocess, so a call that can return     *)
(* does return: weak fairness of CompilerReturn.  The write of the temporary *)
(* file has no timeout; the blocking pool of tokio::fs answers it, with Ok   *)
(* or with the Err of the file system: weak fairness of TempFileWritten.     *)

NextLive ==
    \/ \E caps \in CapsThrottle : Room(MaxTasksLive) /\ Initialize(caps)
    \/ \E u \in Uris : Room(MaxTasksLive) /\ DidOpen(u, FirstEdit)
    \/ \E u \in Uris : Room(MaxTasksLive) /\ Completion(u)
    \/ \E i \in Slots(MaxTasksLive) : NoPublishDone(i)
    \/ \E i \in Slots(MaxTasksLive) : SettingsGlobal(i)
    \/ \E i \in Slots(MaxTasksLive), out \in WriteOutcomes :
          TempFileWritten(i, out)
    \/ \E i \in Slots(MaxTasksLive) : Hang(i)
    \/ \E i \in Slots(MaxTasksLive), out \in CompilerOutcomes :
          CompilerReturn(i, out)
    \/ \E i \in Slots(MaxTasksLive) : PublishDone(i)
    \/ \E i \in Slots(MaxTasksLive) : ErrorLogged(i)

SpecLive ==
    /\ Init
    /\ [][NextLive]_vars
    /\ \A i \in Slots(MaxTasksLive) :
          /\ WF_vars(\E out \in WriteOutcomes : TempFileWritten(i, out))
          /\ WF_vars(\E out \in CompilerOutcomes : CompilerReturn(i, out))

-----------------------------------------------------------------------------
(* Poisoned locks.  A RwLock is poisoned when a thread panics while it     *)
(* holds the write guard; from then on read() and write() return Err.      *)
(* Nothing in backend/mod.rs panics under a write guard, so the panic      *)
(* comes from what runs under it (TextDocuments::listen, the allocator):   *)
(* an event of the environment.  Every acquisition maps the Err to a       *)
(* jsonrpc error.                                                          *)

\* a panic under the write guard of lock
Poison(lock) ==
    /\ ~Poisoned(lock)
    /\ poisoned' = poisoned \cup {lock}
    /\ UNCHANGED <<now, flags, documents, document_settings, global_settings,
                   last_validated, tasks, diagnostics>>

\* completion, hover, goto_definition: for_document cannot read the store
RequestPoisoned(kind, u) ==
    /\ Poisoned("documents")
    /\ tasks' = Append(tasks, FailOn(NewTask(kind, u), "documents", "read"))
    /\ UNCHANGED <<poisoned, now, flags, documents, document_settings,
                   global_settings, last_validated, diagnostics>>

\* did_open: try_did_open cannot write the store; the Err is logged and the
\* handler goes on to validate_document when the log was sent
DidOpenPoisoned(u, e) ==
    /\ Poisoned("documents")
    /\ tasks' = Append(tasks,
                  [NewTask("did_open", u) EXCEPT
                      !.edit = <<e>>, !.cause = "lock", !.pc = "try_log",
                      !.tried = LockError("documents", "write")])
    /\ UNCHANGED <<poisoned, now, flags, documents, document_settings,
                   global_settings, last_validated, diagnostics>>

\* did_change: try_did_change cannot write the store; the Err is logged and
\* the handler goes on to throttled_validate_document when the log was sent
DidChangePoisoned(u, e) ==
    /\ Poisoned("documents")
    /\ tasks' = Append(tasks,
                  [NewTask("did_change", u) EXCEPT
                      !.edit = <<e>>, !.cause = "lock", !.pc = "try_log",
                      !.tried = LockError("documents", "write")])
    /\ UNCHANGED <<poisoned, now, flags, documents, document_settings,
                   global_settings, last_validated, diagnostics>>

\* the Err of try_did_open or try_did_change was logged: the validation
\* starts
TryLogged(i) ==
    /\ Waiting(i, "try_log")
    /\ LET t == tasks[i] IN
       Put(i, IF t.kind = "did_change"
              THEN ThrottledValidateStart(t, t.uri, documents)
              ELSE DidOpenValidation(t, t.uri, documents))
    /\ UNCHANGED <<poisoned, now, flags, documents, document_settings,
                   global_settings, last_validated, diagnostics>>

\* did_close: try_did_close cannot write the store
DidClosePoisoned(u) ==
    /\ Poisoned("documents")
    /\ tasks' = Append(tasks, FailOn(NewTask("did_close", u), "documents", "write"))
    /\ UNCHANGED <<poisoned, now, flags, documents, document_settings,
                   global_settings, last_validated, diagnostics>>

\* did_change_configuration: the settings store cannot be written, or it is
\* written and the document store cannot be read
DidChangeConfigurationPoisoned(p) ==
    LET store == IF FlagOrFalse(can_lookup_configuration)
                 THEN "document_settings" ELSE "global_settings"
        t == [NewTask("did_change_configuration", NoUri) EXCEPT !.payload = <<p>>]
    IN /\ Poisoned(store) \/ Poisoned("documents")
       /\ Free(store, "write")
       /\ IF Poisoned(store)
          THEN /\ tasks' = Append(tasks, FailOn(t, store, "write"))
               /\ UNCHANGED <<document_settings, global_settings>>
          ELSE /\ document_settings' = ConfigurationStores(p).cache
               /\ global_settings' = ConfigurationStores(p).global
               /\ tasks' = Append(tasks, FailOn(t, "documents", "read"))
       /\ UNCHANGED <<poisoned, now, flags, documents, last_validated,
                      diagnostics>>

\* get_document_settings cannot read the global settings
SettingsGlobalPoisoned(i) ==
    /\ Waiting(i, "gds_global_log")
    /\ Poisoned("global_settings")
    /\ Put(i, FailOn(tasks[i], "global_settings", "read"))
    /\ UNCHANGED <<poisoned, now, flags, documents, document_settings,
                   global_settings, last_validated, diagnostics>>

\* get_document_settings cannot read the cache
SettingsCachePoisoned(i) ==
    /\ Waiting(i, "gds_cache_log")
    /\ Poisoned("document_settings")
    /\ Put(i, FailOn(tasks[i], "document_settings", "read"))
    /\ UNCHANGED <<poisoned, now, flags, documents, document_settings,
                   global_settings, last_validated, diagnostics>>

\* get_document_settings cannot write the value the client sent to the cache
SettingsPullPoisoned(i, answer) ==
    /\ Waiting(i, "gds_pull")
    /\ answer \in SettingsJson
    /\ Poisoned("document_settings")
    /\ Put(i, FailOn(tasks[i], "document_settings", "write"))
    /\ UNCHANGED <<poisoned, now, flags, documents, document_settings,
                   global_settings, last_validated, diagnostics>>

\* run_compiler returns Ok, the caller goes on to for_document and the
\* document store cannot be read (the returns that do not read the store are
\* those of CompilerReturn, poisoned or not)
CompilerReturnPoisoned(i, out) ==
    /\ Waiting(i, "compiler")
    /\ Possible(tasks[i], out)
    /\ ReadsDocuments(tasks[i].kind, out)
    /\ Free("documents", "read")
    /\ Poisoned("documents")
    /\ Put(i, FailOn(Returned(tasks[i], out), "documents", "read"))
    /\ UNCHANGED <<poisoned, now, flags, documents, document_settings,
                   global_settings, last_validated, diagnostics>>

\* validate_document returned Ok to throttled_validate_document and the
\* throttle clock cannot be written
ValidateOkPoisoned(i) ==
    /\ i \in DOMAIN tasks
    /\ tasks[i].pc \in {"publish", "vd_nopub"}
    /\ tasks[i].kind = "did_change"
    /\ Free("last_validated", "write")
    /\ Poisoned("last_validated")
    /\ Put(i, FailOn(tasks[i], "last_validated", "write"))
    /\ UNCHANGED <<poisoned, now, flags, documents, document_settings,
                   global_settings, last_validated, diagnostics>>

CapsErrors == { c \in Capabilities : ~c.change /\ c.publish }
OutcomesErrors == {"ok", "ok_bad_json", "not_utf8", "timeout"}

\* Failures: MaxTasksErrors invocations of initialize, did_open (of the
\* first uri), did_change, did_close, did_change_configuration and hover,
\* under the clock, and locks that get poisoned.
NextErrors ==
    \/ Tick
    \/ \E lock \in Locks : Poison(lock)
    \/ \E caps \in CapsErrors : Room(MaxTasksErrors) /\ Initialize(caps)
    \/ Room(MaxTasksErrors) /\ DidOpen(UriOrder[1], FirstEdit)
    \/ Room(MaxTasksErrors) /\ DidOpenPoisoned(UriOrder[1], FirstEdit)
    \/ Room(MaxTasksErrors) /\ DidChange(UriOrder[1], NextEdit)
    \/ Room(MaxTasksErrors) /\ DidChangePoisoned(UriOrder[1], NextEdit)
    \/ Room(MaxTasksErrors) /\ DidClose(UriOrder[1])
    \/ Room(MaxTasksErrors) /\ DidClosePoisoned(UriOrder[1])
    \/ Room(MaxTasksErrors) /\ DidChangeConfiguration(PayloadAlt)
    \/ Room(MaxTasksErrors) /\ DidChangeConfigurationPoisoned(PayloadAlt)
    \/ Room(MaxTasksErrors) /\ Hover(UriOrder[1])
    \/ Room(MaxTasksErrors) /\ RequestPoisoned("hover", UriOrder[1])
    \/ \E i \in Slots(MaxTasksErrors) : TryLogged(i)
    \/ \E i \in Slots(MaxTasksErrors) : SettingsGlobal(i)
    \/ \E i \in Slots(MaxTasksErrors), out \in WriteOutcomes :
          TempFileWritten(i, out)
    \/ \E i \in Slots(MaxTasksErrors) : SettingsGlobalPoisoned(i)
    \/ \E i \in Slots(MaxTasksErrors) : SettingsCache(i)
    \/ \E i \in Slots(MaxTasksErrors) : SettingsFetch(i)
    \/ \E i \in Slots(MaxTasksErrors) : SettingsCachePoisoned(i)
    \/ \E i \in Slots(MaxTasksErrors), answer \in AnswersConfig :
          SettingsPull(i, answer)
    \/ \E i \in Slots(MaxTasksErrors), answer \in AnswersConfig :
          SettingsPullPoisoned(i, answer)
    \/ \E i \in Slots(MaxTasksErrors) : SettingsFallback(i)
    \/ \E i \in Slots(MaxTasksErrors), out \in OutcomesErrors :
          CompilerReturn(i, out)
    \/ \E i \in Slots(MaxTasksErrors), out \in OutcomesErrors :
          CompilerReturnPoisoned(i, out)
    \/ \E i \in Slots(MaxTasksErrors) : NoPublishDone(i)
    \/ \E i \in Slots(MaxTasksErrors) : PublishDone(i)
    \/ \E i \in Slots(MaxTasksErrors) : ValidateOkPoisoned(i)
    \/ \E i \in Slots(MaxTasksErrors) : ErrorLogged(i)

SpecErrors == Init /\ [][NextErrors]_vars

-----------------------------------------------------------------------------
(* goto_definition after run_compiler returned Ok *)

\* what a goto-definition answer has for "file": no such field, the empty
\* string, the prelude, and absolute and relative paths
GotoFiles == {"absent", "", "__prelude__", "/missing.nu", "/lib.nu", "lib.nu",
              "/a.nu", "/b.nu"}

\* the offsets of the answer
GotoSpan == [start |-> 1, end |-> 2]

\* #[serde(default)] on IdeGotoDef: a missing field is PathBuf::default()
DecodedFile(f) == IF f = "absent" THEN "" ELSE f

\* the files on disk
OnDisk == {"/lib.nu", "lib.nu", "/a.nu", "/b.nu"}

\* matches!(goto_def.file.to_str(), None | Some("" | "__prelude__"))
NoTarget(file) == file \in {"", "__prelude__"}

\* Faulty variant of Exists: the file system is not asked.
ExistsUnchecked(file) == TRUE

\* goto_def.file.exists()
Exists(file) == file \in OnDisk

\* Url::from_file_path(file): Ok(url) as <<url>> for an absolute path, Err as
\* <<>> for a relative one
UrlFromFilePath(file) ==
    CASE file = "/missing.nu" -> <<"file:///missing.nu">>
      [] file = "/lib.nu" -> <<"file:///lib.nu">>
      [] file = "/a.nu" -> <<"file:///a.nu">>
      [] file = "/b.nu" -> <<"file:///b.nu">>
      [] OTHER -> <<>>

\* the document whose position_at converts the offsets of the answer:
\* self.for_document(&uri, ..) with the uri of the request
RangeDocument(t, file) == t.uri

\* the subprocess of a goto_definition completed and wrote an answer whose
\* file field is f: nothing is answered without a target; a file that is not
\* on disk is logged before nothing is answered; otherwise for_document
\* converts the span and the Location is built
GotoDefinitionAnswer(i, f) ==
    /\ Waiting(i, "compiler")
    /\ tasks[i].kind = "goto_definition"
    /\ Possible(tasks[i], "ok")
    /\ Free("documents", "read")
    /\ LET file == DecodedFile(f)
           out == IF NoTarget(file) THEN "ok_no_target"
                  ELSE IF ~Exists(file) THEN "ok_missing"
                  ELSE "ok"
           t == [Returned(tasks[i], out) EXCEPT !.target = file]
           doc == RangeDocument(t, file)
       IN Put(i, IF NoTarget(file) THEN Done(t, "Ok")
                 ELSE IF ~Exists(file) THEN [t EXCEPT !.pc = "goto_log"]
                 ELSE IF Poisoned("documents")
                 THEN FailOn(t, "documents", "read")
                 ELSE IF ~Tracked(documents, doc) THEN Fail(t, "InvalidParams")
                 ELSE IF UrlFromFilePath(file) = <<>> THEN Fail(t, "Parse")
                 ELSE Done([Ranged(t, documents) EXCEPT !.location =
                               << [ uri |-> UrlFromFilePath(file)[1],
                                    of |-> doc,
                                    text |-> documents[doc].text,
                                    start |-> GotoSpan.start,
                                    end |-> GotoSpan.end ] >>], "Ok"))
    /\ UNCHANGED <<poisoned, now, flags, documents, document_settings,
                   global_settings, last_validated, diagnostics>>

OutcomesGoto == {"ok_bad_json", "timeout"}

\* goto_definition: MaxTasksGoto invocations of did_open, did_close and
\* goto_definition before any initialize, the clock standing still.
NextGoto ==
    \/ \E u \in Uris, e \in Edits : Room(MaxTasksGoto) /\ DidOpen(u, e)
    \/ \E u \in Uris : Room(MaxTasksGoto) /\ DidClose(u)
    \/ \E u \in Uris : Room(MaxTasksGoto) /\ GotoDefinition(u)
    \/ \E i \in Slots(MaxTasksGoto) : NoPublishDone(i)
    \/ \E i \in Slots(MaxTasksGoto) : SettingsGlobal(i)
    \/ \E i \in Slots(MaxTasksGoto) : TempFileWritten(i, "spawned")
    \/ \E i \in Slots(MaxTasksGoto), f \in GotoFiles : GotoDefinitionAnswer(i, f)
    \/ \E i \in Slots(MaxTasksGoto) : GotoLogged(i)
    \/ \E i \in Slots(MaxTasksGoto), out \in OutcomesGoto : CompilerReturn(i, out)

SpecGoto == Init /\ [][NextGoto]_vars

-----------------------------------------------------------------------------
(* The arguments of the subprocess (src/src/nu.rs) *)

\* The arguments: MaxTasksArgs invocations of initialize, did_open,
\* did_change_configuration and the three requests, on documents of every
\* kind of uri, the clock standing still.
NextArgs ==
    \/ \E caps \in CapsThrottle : Room(MaxTasksArgs) /\ Initialize(caps)
    \/ \E u \in UrisArgs : Room(MaxTasksArgs) /\ DidOpen(u, FirstEdit)
    \/ Room(MaxTasksArgs) /\ DidChangeConfiguration(PayloadAlt)
    \/ \E u \in UrisArgs : Room(MaxTasksArgs) /\ Completion(u)
    \/ \E u \in UrisArgs : Room(MaxTasksArgs) /\ Hover(u)
    \/ \E u \in UrisArgs : Room(MaxTasksArgs) /\ GotoDefinition(u)
    \/ \E i \in Slots(MaxTasksArgs) : NoPublishDone(i)
    \/ \E i \in Slots(MaxTasksArgs) : SettingsGlobal(i)
    \/ \E i \in Slots(MaxTasksArgs) : TempFileWritten(i, "spawned")
    \/ \E i \in Slots(MaxTasksArgs), out \in OutcomesShort : CompilerReturn(i, out)
    \/ \E i \in Slots(MaxTasksArgs) : PublishDone(i)
    \/ \E i \in Slots(MaxTasksArgs) : ErrorLogged(i)

SpecArgs == Init /\ [][NextArgs]_vars

-----------------------------------------------------------------------------
(* The per-document settings cache (src/src/backend/mod.rs) *)

CapsCache == { c \in Capabilities : ~c.change /\ c.lookup /\ c.publish }

\* The cache: MaxTasksCache invocations of initialize (with per-resource
\* lookup), did_open, hover and did_change_configuration, the client
\* answering a configuration request in every way, the clock standing still.
NextCache ==
    \/ \E caps \in CapsCache : Room(MaxTasksCache) /\ Initialize(caps)
    \/ \E u \in Uris : Room(MaxTasksCache) /\ DidOpen(u, FirstEdit)
    \/ \E u \in Uris : Room(MaxTasksCache) /\ Hover(u)
    \/ Room(MaxTasksCache) /\ DidChangeConfiguration(PayloadAlt)
    \/ \E i \in Slots(MaxTasksCache) : NoPublishDone(i)
    \/ \E i \in Slots(MaxTasksCache) : SettingsGlobal(i)
    \/ \E i \in Slots(MaxTasksCache) : TempFileWritten(i, "spawned")
    \/ \E i \in Slots(MaxTasksCache) : SettingsCache(i)
    \/ \E i \in Slots(MaxTasksCache) : SettingsFetch(i)
    \/ \E i \in Slots(MaxTasksCache), answer \in PullAnswers :
          SettingsPull(i, answer)
    \/ \E i \in Slots(MaxTasksCache) : SettingsFallback(i)
    \/ \E i \in Slots(MaxTasksCache), out \in OutcomesShort : CompilerReturn(i, out)
    \/ \E i \in Slots(MaxTasksCache) : PublishDone(i)
    \/ \E i \in Slots(MaxTasksCache) : ErrorLogged(i)

SpecCache == Init /\ [][NextCache]_vars

-----------------------------------------------------------------------------
(* Decoding the output of the compiler (src/src/nu.rs) *)

\* The output of `nu --ide-check` as a sequence of pieces: a line feed, text
\* that is no JSON, or a JSON object.
LineFeed == [is |-> "lf"]
NotJson == [is |-> "text"]
Object(o) == [is |-> "object", object |-> o]

SpanA == [end |-> 1, start |-> 0]
SpanB == [end |-> 3, start |-> 2]

\* the variants of IdeDiagnosticSeverity
Severities == {"Error", "Warning", "Information", "Hint"}

OutputObjects ==
    { [type |-> "diagnostic", message |-> "m1", severity |-> "Error",
       span |-> SpanA],
      [type |-> "diagnostic", message |-> "m2", severity |-> "Warning",
       span |-> SpanB],
      [type |-> "hint", position |-> SpanB, typename |-> "int"],
      [type |-> "diagnostic", message |-> "m3", severity |-> "Error"],
      [type |-> "diagnostic", message |-> "m4", severity |-> "fatal",
       span |-> SpanA],
      [type |-> "note", message |-> "m5"],
      [message |-> "m6", severity |-> "Error", span |-> SpanA] }

Chunks == {LineFeed, NotJson} \cup { Object(o) : o \in OutputObjects }

Outputs == UNION { [1..n -> Chunks] : n \in 0..MaxChunks }

RECURSIVE StrLines(_, _)
\* str::lines(): the output is cut at every line feed; what follows the last
\* line feed is a line unless it is empty.  cur is the line being collected.
StrLines(s, cur) ==
    IF s = <<>> THEN (IF cur = <<>> THEN <<>> ELSE <<cur>>)
    ELSE IF Head(s) = LineFeed THEN <<cur>> \o StrLines(Tail(s), <<>>)
    ELSE StrLines(Tail(s), Append(cur, Head(s)))

\* serde_json::from_slice::<IdeCheck>(line).ok(): Some(check) as <<check>>,
\* None as <<>>.  The line must be one JSON object whose "type" is
\* "diagnostic" or "hint" and which has the fields of that variant.
ParseIdeCheck(line) ==
    IF Len(line) # 1 \/ line[1].is # "object" THEN <<>>
    ELSE LET o == line[1].object IN
         IF "type" \notin DOMAIN o THEN <<>>
         ELSE IF o.type = "diagnostic"
         THEN IF {"message", "severity", "span"} \subseteq DOMAIN o
                 /\ o.severity \in Severities
              THEN << [ variant |-> "Diagnostic",
                        value |-> [message |-> o.message,
                                   severity |-> o.severity, span |-> o.span] ] >>
              ELSE <<>>
         ELSE IF o.type = "hint"
         THEN IF {"position", "typename"} \subseteq DOMAIN o
              THEN << [ variant |-> "Hint",
                        value |-> [position |-> o.position,
                                   typename |-> o.typename] ] >>
              ELSE <<>>
         ELSE <<>>

RECURSIVE MapWhileParse(_)
\* Faulty variant of FilterMapParse: decoding stops at the first line that
\* does not parse.
MapWhileParse(lines) ==
    IF lines = <<>> \/ ParseIdeCheck(Head(lines)) = <<>> THEN <<>>
    ELSE ParseIdeCheck(Head(lines)) \o MapWhileParse(Tail(lines))

RECURSIVE FilterMapParse(_)
\* .filter_map(|l| serde_json::from_slice(l.as_bytes()).ok()).collect()
FilterMapParse(lines) ==
    IF lines = <<>> THEN <<>>
    ELSE ParseIdeCheck(Head(lines)) \o FilterMapParse(Tail(lines))

\* the values of the checks of one variant, in order
OfVariant(checks, v) ==
    LET sel == SelectSeq(checks, LAMBDA c : c.variant = v)
    IN [k \in DOMAIN sel |-> sel[k].value]

\* IdeCheckResponse::from_compiler_response
FromCompilerResponse(stdout) ==
    LET ide_checks == FilterMapParse(StrLines(stdout, <<>>))
    IN [ diagnostics |-> OfVariant(ide_checks, "Diagnostic"),
         inlay_hints |-> OfVariant(ide_checks, "Hint") ]

\* a check response is decoded
DecodeCheck(stdout) ==
    /\ tasks' = Append(tasks,
                  Done([NewTask("from_compiler_response", NoUri) EXCEPT
                           !.input = <<stdout>>,
                           !.output = <<FromCompilerResponse(stdout)>>], "Ok"))
    /\ UNCHANGED <<poisoned, now, flags, documents, document_settings,
                   global_settings, last_validated, diagnostics>>

\* The labels of a completion answer: sequences of the characters "a" and "(".
LabelChars == {"a", "("}
Labels == UNION { [1..n -> LabelChars] : n \in 0..MaxLabelLen }
Completions == UNION { [1..n -> Labels] : n \in 0..MaxLabels }

\* Faulty variant of Contains: the label begins with the character.
StartsWith(label, ch) == Len(label) > 0 /\ label[1] = ch

\* c.contains(ch)
Contains(label, ch) == \E k \in DOMAIN label : label[k] = ch

\* impl From<IdeComplete> for CompletionResponse: .enumerate() counts from 0
CompletionItems(completions) ==
    [ k \in DOMAIN completions |->
        LET i == k - 1
            c == completions[k]
        IN [ data |-> i + 1,
             kind |-> IF Contains(c, "(") THEN "FUNCTION" ELSE "FIELD",
             label |-> c ] ]

\* a completion answer is mapped
MapCompletions(completions) ==
    /\ tasks' = Append(tasks,
                  Done([NewTask("completion_response", NoUri) EXCEPT
                           !.input = <<completions>>,
                           !.output = <<CompletionItems(completions)>>], "Ok"))
    /\ UNCHANGED <<poisoned, now, flags, documents, document_settings,
                   global_settings, last_validated, diagnostics>>

\* The conversions of the compiler's answers: one conversion, of any input,
\* in a behaviour.
NextDecode ==
    \/ \E stdout \in Outputs : tasks = <<>> /\ DecodeCheck(stdout)
    \/ \E cs \in Completions : tasks = <<>> /\ MapCompletions(cs)

SpecDecode == Init /\ [][NextDecode]_vars

-----------------------------------------------------------------------------
(* Edits while the compiler runs *)

\* The spans of an answer: MaxTasksSpans invocations of initialize, did_open,
\* did_change, hover and goto_definition on one document, the clock standing
\* still (an edit is stored and its validation skipped).
NextSpans ==
    \/ \E caps \in CapsThrottle : Room(MaxTasksSpans) /\ Initialize(caps)
    \/ Room(MaxTasksSpans) /\ DidOpen(UriOrder[1], FirstEdit)
    \/ Room(MaxTasksSpans) /\ DidChange(UriOrder[1], NextEdit)
    \/ Room(MaxTasksSpans) /\ Hover(UriOrder[1])
    \/ Room(MaxTasksSpans) /\ GotoDefinition(UriOrder[1])
    \/ \E i \in Slots(MaxTasksSpans) : NoPublishDone(i)
    \/ \E i \in Slots(MaxTasksSpans) : SettingsGlobal(i)
    \/ \E i \in Slots(MaxTasksSpans) : TempFileWritten(i, "spawned")
    \/ \E i \in Slots(MaxTasksSpans), out \in OutcomesShort : CompilerReturn(i, out)
    \/ \E i \in Slots(MaxTasksSpans) : PublishDone(i)
    \/ \E i \in Slots(MaxTasksSpans) : ErrorLogged(i)

SpecSpans == Init /\ [][NextSpans]_vars

-----------------------------------------------------------------------------
(* The conversions of a check answer and of a duration (src/src/nu.rs,     *)
(* src/src/deserialize.rs)                                                 *)

\* The documents whose offsets are converted: the letter a and the line feed,
\* one byte and one UTF-16 code unit each.
DocChars == {"a", "lf"}
DocTexts == UNION { [1..n -> DocChars] : n \in 0..MaxDocLen }

\* IdeSpan: two offsets, in any order, the end of the text or behind it
Spans == [start : 0..(MaxDocLen + 1), end : 0..(MaxDocLen + 1)]

\* doc.position_at(offset) on such a document: an offset behind the end is
\* the end; the line is the number of line feeds before the offset, the
\* character the distance from the last of them
PositionAt(doc, offset) ==
    LET o == IF offset > Len(doc) THEN Len(doc) ELSE offset
        feeds == { j \in 1..o : doc[j] = "lf" }
        start == IF feeds = {} THEN 0
                 ELSE CHOOSE j \in feeds : \A x \in feeds : x <= j
    IN [ line |-> Cardinality(feeds), character |-> o - start ]

TypeNames == {"int", "list<string>"}
IdeCheckHints == [position : Spans, typename : TypeNames]

\* Faulty variant of HintAnchor: the start of the span.
HintAnchorStart(h) == h.position.start

\* the offset an inlay hint is put at
HintAnchor(h) == h.position.end

\* IdeCheckHint::to_inlay_hint; the label is format!(": {}", typename), here
\* the sequence of its two pieces
ToInlayHint(h, doc) ==
    [ position |-> PositionAt(doc, HintAnchor(h)),
      label |-> <<": ", h.typename>>,
      kind |-> "TYPE" ]

\* a hint is converted
CallToInlayHint(h, doc) ==
    /\ tasks' = Append(tasks,
                  Done([NewTask("to_inlay_hint", NoUri) EXCEPT
                           !.input = <<h, doc>>,
                           !.output = <<ToInlayHint(h, doc)>>], "Ok"))
    /\ UNCHANGED <<poisoned, now, flags, documents, document_settings,
                   global_settings, last_validated, diagnostics>>

Messages == {"m1", "m2"}
IdeCheckDiagnostics ==
    [message : Messages, severity : Severities, span : {SpanA, SpanB}]

\* Faulty variant of SeverityFrom: Hint is reported as INFORMATION.
SeverityFromNoHint(value) ==
    CASE value = "Error" -> "ERROR"
      [] value = "Warning" -> "WARNING"
      [] OTHER -> "INFORMATION"

\* impl From<&IdeDiagnosticSeverity> for DiagnosticSeverity
SeverityFrom(value) ==
    CASE value = "Error" -> "ERROR"
      [] value = "Warning" -> "WARNING"
      [] value = "Information" -> "INFORMATION"
      [] value = "Hint" -> "HINT"

\* IdeCheckDiagnostic::to_diagnostic; the fields it does not name are those
\* of Diagnostic::default()
ToDiagnostic(d, doc, u) ==
    [ message |-> d.message,
      range |-> [ end |-> PositionAt(doc, d.span.end),
                  start |-> PositionAt(doc, d.span.start) ],
      severity |-> <<SeverityFrom(d.severity)>>,
      source |-> <<u>> ]

\* a diagnostic is converted
CallToDiagnostic(d, doc, u) ==
    /\ tasks' = Append(tasks,
                  Done([NewTask("to_diagnostic", NoUri) EXCEPT
                           !.input = <<d, doc, u>>,
                           !.output = <<ToDiagnostic(d, doc, u)>>], "Ok"))
    /\ UNCHANGED <<poisoned, now, flags, documents, document_settings,
                   global_settings, last_validated, diagnostics>>

\* The JSON values into_duration_ms is given: a number as it is written (a
\* sign, the digits before the point, the digits after it if there is a
\* point) or a value that is no number.  TooLong stands for digits that make
\* more than u64::MAX.
TooLong == -1
Wholes == {0, 1, 123, 1999, TooLong}
Fractions == {"", "0", "5"}
JsonNumbers == [neg : BOOLEAN, whole : Wholes, frac : Fractions]
NotANumber == [string |-> "123"]

\* serde_json::Number::deserialize: the Number of a JSON number.  Digits with
\* a point are a Float; digits without one are a PosInt when they make a u64
\* and a Float when they make more; with a minus sign they are a NegInt, and
\* a Float when they are zero or make less than i64::MIN.
NumberOf(j) ==
    IF j.frac # "" \/ j.whole = TooLong THEN [n |-> "Float"]
    ELSE IF ~j.neg THEN [n |-> "PosInt", value |-> j.whole]
    ELSE IF j.whole = 0 THEN [n |-> "Float"]
    ELSE [n |-> "NegInt", value |-> 0 - j.whole]

\* Faulty variant of AsU64: a NegInt is given as its magnitude.
AsU64Magnitude(number) ==
    CASE number.n = "PosInt" -> <<number.value>>
      [] number.n = "NegInt" -> <<0 - number.value>>
      [] OTHER -> <<>>

\* Number::as_u64(): Some(i) as <<i>>, None as <<>>
AsU64(number) ==
    IF number.n = "PosInt" THEN <<number.value>> ELSE <<>>

\* Duration::from_millis(i)
FromMillis(i) == [ secs |-> i \div 1000, nanos |-> (i % 1000) * 1000000 ]

\* into_duration_ms: Ok(duration) as <<duration>>, Err as <<>>
IntoDurationMs(j) ==
    IF j = NotANumber THEN <<>>
    ELSE IF AsU64(NumberOf(j)) # <<>>
    THEN <<FromMillis(AsU64(NumberOf(j))[1])>>
    ELSE <<>>

\* a value is deserialized as a duration
CallIntoDurationMs(j) ==
    /\ tasks' = Append(tasks,
                  Done([NewTask("into_duration_ms", NoUri) EXCEPT
                           !.input = <<j>>,
                           !.output = <<IntoDurationMs(j)>>], "Ok"))
    /\ UNCHANGED <<poisoned, now, flags, documents, document_settings,
                   global_settings, last_validated, diagnostics>>

\* The conversions: one conversion, of any input, in a behaviour.
NextConvert ==
    \/ \E h \in IdeCheckHints, doc \in DocTexts :
          tasks = <<>> /\ CallToInlayHint(h, doc)
    \/ \E d \in IdeCheckDiagnostics, doc \in DocTexts, u \in Uris :
          tasks = <<>> /\ CallToDiagnostic(d, doc, u)
    \/ \E j \in JsonNumbers \cup {NotANumber} :
          tasks = <<>> /\ CallIntoDurationMs(j)

SpecConvert == Init /\ [][NextConvert]_vars

-----------------------------------------------------------------------------
(* The Backend of src/src/main.rs: one capability flag, one settings value,  *)
(* no throttle.  Its validate_document differs from the one above in how it  *)
(* reads the flag and in get_document_settings, which does not suspend; from *)
(* run_compiler on the two are the same text.                                *)

\* can_publish_diagnostics.get_or_init(|| false): the flag after the call
GetOrInitFalse(l) == IF l = <<>> THEN <<FALSE>> ELSE l

\* main.rs validate_document(u) called by task t, up to its first .await
MainValidateStart(t, u, docs, created) ==
    LET t1 == [t EXCEPT !.entered = @ \cup {u}, !.cur = u] IN
    IF ~GetOrInitFalse(can_publish_diagnostics)[1]
    THEN [t1 EXCEPT !.pc = "vd_nopub"]
    ELSE IF Poisoned("documents") THEN FailOn(t1, "documents", "read")
    ELSE IF ~Tracked(docs, u) THEN Fail(t1, "InvalidParams")
    ELSE RunCompiler([t1 EXCEPT !.text = docs[u].text], global_settings,
                     created)

\* main.rs initialize: OnceLock::set; when the flag is set already it keeps
\* its value, and the handler logs an error before it returns Ok
MainInitialize(publish) ==
    /\ can_publish_diagnostics' =
          IF OnceIsSet(can_publish_diagnostics) THEN can_publish_diagnostics
          ELSE <<publish>>
    /\ LET t == Done(NewTask("initialize", NoUri), "Ok") IN
       tasks' = Append(tasks,
                  IF OnceIsSet(can_publish_diagnostics)
                  THEN [t EXCEPT !.pc = "log_error"]
                  ELSE t)
    /\ UNCHANGED <<poisoned, now, can_change_configuration, can_lookup_configuration,
                   documents, document_settings, global_settings,
                   last_validated, diagnostics>>

\* main.rs did_open: try_did_open, then validate_document
MainDidOpen(u, e) ==
    /\ Takes({<<"documents", "write">>})
    /\ documents' = ListenDidOpen(documents, u, e.text, e.version)
    /\ can_publish_diagnostics' = GetOrInitFalse(can_publish_diagnostics)
    /\ \E created \in TempFileCreated :
          tasks' = Append(tasks,
                     MainValidateStart(
                         [NewTask("did_open", u) EXCEPT !.edit = <<e>>],
                         u, documents', created))
    /\ UNCHANGED <<poisoned, now, can_change_configuration, can_lookup_configuration,
                   document_settings, global_settings, last_validated,
                   diagnostics>>

\* main.rs did_change: try_did_change
MainDidChange(u, e) ==
    /\ Takes({<<"documents", "write">>})
    /\ documents' = ListenDidChange(documents, u, e.text, e.version)
    /\ tasks' = Append(tasks,
                  Done([NewTask("did_change", u) EXCEPT !.edit = <<e>>], "Ok"))
    /\ UNCHANGED <<poisoned, now, flags, document_settings, global_settings,
                   last_validated, diagnostics>>

\* main.rs did_close: try_did_close
MainDidClose(u) ==
    /\ Takes({<<"documents", "write">>})
    /\ documents' = ListenDidClose(documents, u)
    /\ tasks' = Append(tasks, Done(NewTask("did_close", u), "Ok"))
    /\ UNCHANGED <<poisoned, now, flags, document_settings, global_settings,
                   last_validated, diagnostics>>

\* main.rs did_open: try_did_open cannot write the store; the Err is logged
\* and the handler goes on to validate_document when the log was sent
MainDidOpenPoisoned(u, e) ==
    /\ Poisoned("documents")
    /\ tasks' = Append(tasks,
                  [NewTask("did_open", u) EXCEPT
                      !.edit = <<e>>, !.cause = "lock", !.pc = "try_log",
                      !.tried = LockError("documents", "write")])
    /\ UNCHANGED <<poisoned, now, flags, documents, document_settings,
                   global_settings, last_validated, diagnostics>>

\* main.rs did_open: the Err of try_did_open was logged, validate_document
\* starts
MainTryLogged(i) ==
    /\ Waiting(i, "try_log")
    /\ can_publish_diagnostics' = GetOrInitFalse(can_publish_diagnostics)
    /\ \E created \in TempFileCreated :
          Put(i, MainValidateStart(tasks[i], tasks[i].uri, documents, created))
    /\ UNCHANGED <<poisoned, now, can_change_configuration, can_lookup_configuration,
                   documents, document_settings, global_settings,
                   last_validated, diagnostics>>

\* main.rs did_change: try_did_change cannot write the store; the Err is
\* logged and the handler returns
MainDidChangePoisoned(u, e) ==
    /\ Poisoned("documents")
    /\ tasks' = Append(tasks,
                  FailOn([NewTask("did_change", u) EXCEPT !.edit = <<e>>],
                         "documents", "write"))
    /\ UNCHANGED <<poisoned, now, flags, documents, document_settings,
                   global_settings, last_validated, diagnostics>>

\* main.rs did_close: try_did_close cannot write the store; the Err is logged
\* and the handler returns
MainDidClosePoisoned(u) ==
    /\ Poisoned("documents")
    /\ tasks' = Append(tasks,
                  FailOn(NewTask("did_close", u), "documents", "write"))
    /\ UNCHANGED <<poisoned, now, flags, documents, document_settings,
                   global_settings, last_validated, diagnostics>>

\* The session of main.rs: MaxTasksMain invocations of its handlers, and a
\* document store that gets poisoned (nothing in main.rs writes ide_settings,
\* so that lock stays sound).
NextMain ==
    \/ Poison("documents")
    \/ \E publish \in BOOLEAN : Room(MaxTasksMain) /\ MainInitialize(publish)
    \/ \E u \in Uris, e \in Edits : Room(MaxTasksMain) /\ MainDidOpen(u, e)
    \/ \E u \in Uris, e \in Edits : Room(MaxTasksMain) /\ MainDidChange(u, e)
    \/ \E u \in Uris : Room(MaxTasksMain) /\ MainDidClose(u)
    \/ Room(MaxTasksMain) /\ MainDidOpenPoisoned(UriOrder[1], FirstEdit)
    \/ Room(MaxTasksMain) /\ MainDidChangePoisoned(UriOrder[1], NextEdit)
    \/ Room(MaxTasksMain) /\ MainDidClosePoisoned(UriOrder[1])
    \/ \E i \in Slots(MaxTasksMain) : MainTryLogged(i)
    \/ \E i \in Slots(MaxTasksMain), out \in WriteOutcomes :
          TempFileWritten(i, out)
    \/ \E i \in Slots(MaxTasksMain) : NoPublishDone(i)
    \/ \E i \in Slots(MaxTasksMain), out \in CompilerOutcomes :
          CompilerReturn(i, out)
    \/ \E i \in Slots(MaxTasksMain), out \in OutcomesShort :
          CompilerReturnPoisoned(i, out)
    \/ \E i \in Slots(MaxTasksMain) : PublishDone(i)
    \/ \E i \in Slots(MaxTasksMain) : ErrorLogged(i)

SpecMain == Init /\ [][NextMain]_vars

-----------------------------------------------------------------------------
(* Properties *)

\* this step is the arrival of a notification or request of the given kind
IsArrival(kind) ==
    /\ Len(tasks') = Len(tasks) + 1
    /\ tasks'[Len(tasks')].kind = kind

AllUnset ==
    /\ can_change_configuration = OnceUnset
    /\ can_lookup_configuration = OnceUnset
    /\ can_publish_diagnostics = OnceUnset

\* C1: in a session initialized with the diagnostics capability, any two
\* did_change requests that returned Ok and arrived less than 500 ms apart
\* made exactly one run_compiler call between them, and any two that arrived
\* more than 500 ms apart made one call each.
C1_OneCallPerInterval ==
    (Len(tasks) > 0 /\ tasks[1].kind = "initialize"
        /\ can_publish_diagnostics = <<TRUE>>) =>
    \A i, j \in DOMAIN tasks :
        (/\ i < j
         /\ tasks[i].kind = "did_change" /\ tasks[i].result = "Ok"
         /\ tasks[j].kind = "did_change" /\ tasks[j].result = "Ok") =>
        LET gap == tasks[j].started - tasks[i].started IN
        /\ gap < THROTTLE_MS =>
              tasks[i].compiler_calls + tasks[j].compiler_calls = 1
        /\ gap > THROTTLE_MS =>
              tasks[i].compiler_calls = 1 /\ tasks[j].compiler_calls = 1

\* C2: a did_change that arrives less than 500 ms after the session-wide
\* last_validated returns Ok at once: validate_document is not called, no
\* compiler call, no configuration pull and no publication is made, and
\* last_validated and the published diagnostics stay as they are, whichever
\* uri the edit and the last validation were for.
C2_ThrottleSkips ==
    [][ (IsArrival("did_change") /\ now - last_validated < THROTTLE_MS) =>
        LET t == tasks'[Len(tasks')] IN
        /\ t.pc = "done" /\ t.result = "Ok"
        /\ t.entered = {} /\ t.compiler_calls = 0
        /\ t.pulls = 0 /\ t.published = 0
        /\ UNCHANGED <<last_validated, diagnostics>> ]_vars

\* C2, its case: the edit of one uri was skipped less than 500 ms after the
\* only stamp, which a validation of the other uri left.
C2_SkippedAfterOtherUri ==
    \E i, j \in DOMAIN tasks :
        /\ i < j
        /\ tasks[i].kind = "did_change" /\ tasks[i].stamped
        /\ tasks[i].compiler_calls = 1
        /\ \A k \in DOMAIN tasks : tasks[k].stamped => k = i
        /\ tasks[j].kind = "did_change" /\ tasks[j].uri # tasks[i].uri
        /\ tasks[j].pc = "done" /\ tasks[j].entered = {}
        /\ tasks[j].started >= last_validated
        /\ tasks[j].started - last_validated < THROTTLE_MS

\* C3: last_validated changes only in the step in which a did_change request
\* completes after its validate_document returned Ok, and every such step
\* sets it to the time of that step; no other step (a skip, a failed
\* validation, a did_open, a configuration change) changes it.
C3_StampAtCompletion ==
    [][ /\ last_validated' # last_validated =>
              /\ last_validated' = now
              /\ \E i \in DOMAIN tasks :
                    /\ tasks[i].kind = "did_change"
                    /\ tasks[i].pc \in {"publish", "vd_nopub"}
                    /\ tasks'[i].pc = "done" /\ tasks'[i].result = "Ok"
        /\ \A i \in DOMAIN tasks :
              (/\ tasks[i].kind = "did_change"
               /\ tasks[i].pc \in {"publish", "vd_nopub"}
               /\ tasks'[i].pc = "done") => last_validated' = now ]_vars

\* C3, its case: a throttled validation ran the compiler and stamped the
\* clock with a time later than its arrival.
C3_StampedAfterArrival ==
    \E i \in DOMAIN tasks :
        /\ tasks[i].kind = "did_change" /\ tasks[i].stamped
        /\ tasks[i].compiler_calls = 1
        /\ tasks[i].started < last_validated

\* C4: every did_open has called validate_document for the uri it opened.
C4_OpenAlwaysValidates ==
    \A i \in DOMAIN tasks :
        tasks[i].kind = "did_open" => tasks[i].uri \in tasks[i].entered

\* C4, its case: a did_open ran the compiler although less than 500 ms have
\* passed since last_validated, which nothing has stamped since Backend::new.
C4_ValidatedInsideInterval ==
    /\ now - last_validated < THROTTLE_MS
    /\ \A k \in DOMAIN tasks : ~tasks[k].stamped
    /\ \E i \in DOMAIN tasks :
          tasks[i].kind = "did_open" /\ tasks[i].compiler_calls = 1

\* C5: while the per-resource lookup flag is false, no step pulls
\* configuration from the client or changes the per-uri cache, no task is in
\* the cache or pull branch of get_document_settings, and the settings a
\* get_document_settings call returns are the global settings of that moment.
C5_GlobalWhenLookupOff ==
    [][ can_lookup_configuration = <<FALSE>> =>
        /\ UNCHANGED document_settings
        /\ \A i \in DOMAIN tasks' :
              /\ tasks'[i].pulls = 0
              /\ tasks'[i].pc \notin {"gds_cache_log", "gds_pull", "gds_fallback"}
              /\ (/\ tasks'[i].pc = "write"
                  /\ (i \notin DOMAIN tasks \/ tasks[i].pc # "write"))
                 => tasks'[i].settings = <<global_settings>> ]_vars

\* C5, its case: with the flag false a did_open got the global settings that
\* a configuration change had pushed.
C5_ReturnedPushedGlobal ==
    /\ can_lookup_configuration = <<FALSE>>
    /\ global_settings = AltSettings
    /\ \E i \in DOMAIN tasks :
          /\ tasks[i].kind = "did_open" /\ tasks[i].pc = "compiler"
          /\ tasks[i].settings = <<AltSettings>>

\* C6: a configuration-change notification, when per-resource lookup is
\* supported, empties the per-uri cache and leaves the global settings;
\* otherwise it sets the global settings to the section of the payload (the
\* field of that name of an object, the one element of an array; the
\* defaults when the payload or its section does not parse) and leaves the
\* cache.
C6_OneStoreChanges ==
    [][ IsArrival("did_change_configuration") =>
        LET p == tasks'[Len(tasks')].payload[1] IN
        IF can_lookup_configuration = <<TRUE>>
        THEN /\ document_settings' = <<>>
             /\ global_settings' = global_settings
        ELSE /\ global_settings' =
                   IF \/ p.object /\ p.section = <<"alt">>
                      \/ ~p.object /\ p.items = <<"alt">>
                   THEN AltSettings
                   ELSE DefaultSettings
             /\ document_settings' = document_settings ]_vars

\* C6, its case: the cache held the settings a did_open had pulled and
\* cached, and a later configuration change emptied it.
C6_CacheCleared ==
    /\ can_lookup_configuration = <<TRUE>>
    /\ document_settings = <<>>
    /\ \E i, j \in DOMAIN tasks :
          /\ i < j
          /\ tasks[i].pulls = 1 /\ tasks[i].pc \in {"compiler", "publish"}
          /\ tasks[i].settings = <<AltSettings>>
          /\ tasks[j].kind = "did_change_configuration"

\* C7 (as claimed): when a did_change_configuration has returned,
\* validate_document has been called for every uri that was open when the
\* notification collected them.
C7_AllRevalidated ==
    \A i \in DOMAIN tasks :
        (tasks[i].kind = "did_change_configuration" /\ tasks[i].pc = "done")
        => tasks[i].snapshot \subseteq tasks[i].entered

\* C8 (as claimed): a capability flag changes only in an initialize step and
\* only from unset.
C8_WrittenOnlyByInitialize ==
    [][ /\ can_change_configuration' # can_change_configuration =>
              can_change_configuration = OnceUnset /\ IsArrival("initialize")
        /\ can_lookup_configuration' # can_lookup_configuration =>
              can_lookup_configuration = OnceUnset /\ IsArrival("initialize")
        /\ can_publish_diagnostics' # can_publish_diagnostics =>
              can_publish_diagnostics = OnceUnset /\ IsArrival("initialize")
      ]_vars

\* C9 (as claimed): a did_open, did_change_configuration or initialized that
\* arrives while the flags are unset, and so reads an unset flag, fails fast.
C9_UnsetReadFailsFast ==
    [][ (/\ AllUnset
         /\ \E kind \in {"did_open", "did_change_configuration", "initialized"} :
               IsArrival(kind))
        => tasks'[Len(tasks')].result = "panic" ]_vars

\* C9 (amended): while the flags are unset every read of a flag is answered
\* with false and nothing fails: a validate_document call is the no-op of a
\* client without diagnostics, get_document_settings takes the global branch,
\* initialized registers nothing, a configuration change replaces the global
\* settings and leaves the cache, and only initialize writes a flag.
C9_UnsetReadsAsFalse ==
    [][ AllUnset =>
        /\ flags' # flags => IsArrival("initialize")
        /\ \A i \in DOMAIN tasks' :
              (i \notin DOMAIN tasks \/ tasks'[i] # tasks[i]) =>
              LET t == tasks'[i]
                  before == IF i \in DOMAIN tasks THEN tasks[i].entered ELSE {}
              IN /\ t.result # "panic"
                 /\ t.pc \notin {"gds_cache_log", "gds_pull", "register"}
                 /\ ~t.registered
                 /\ t.entered # before => t.pc = "vd_nopub"
        /\ IsArrival("did_change_configuration") =>
              /\ document_settings' = document_settings
              /\ global_settings' =
                    PayloadSection(tasks'[Len(tasks')].payload[1]) ]_vars

\* C9, its case: before any initialize a did_open returned Ok with
\* validate_document called and nothing validated.
C9_NoOpBeforeInitialize ==
    /\ AllUnset
    /\ \E i \in DOMAIN tasks :
          /\ tasks[i].kind = "did_open" /\ tasks[i].result = "Ok"
          /\ tasks[i].entered = {tasks[i].uri}
          /\ tasks[i].compiler_calls = 0 /\ tasks[i].published = 0

\* C10: while the diagnostics flag is false, no did_open, did_change or
\* did_change_configuration has looked up a document (none failed with
\* InvalidParams), resolved settings, run the compiler or published: each is
\* waiting on the no-capability log or has returned Ok, and nothing was
\* published.
C10_NoPublishNoOp ==
    can_publish_diagnostics = <<FALSE>> =>
    /\ diagnostics = <<>>
    /\ \A i \in DOMAIN tasks :
          tasks[i].kind \in {"did_open", "did_change", "did_change_configuration"}
          => /\ tasks[i].pc \in {"vd_nopub", "done"}
             /\ tasks[i].result \in {"none", "Ok"}
             /\ tasks[i].compiler_calls = 0
             /\ tasks[i].pulls = 0
             /\ tasks[i].published = 0

\* C10, its case: with the flag false, validate_document was called for a uri
\* that is not tracked and returned Ok.
C10_UntrackedNoOp ==
    /\ can_publish_diagnostics = <<FALSE>>
    /\ \E i \in DOMAIN tasks :
          /\ tasks[i].kind = "did_change" /\ tasks[i].result = "Ok"
          /\ tasks[i].entered = {tasks[i].uri}
          /\ ~Tracked(documents, tasks[i].uri)

-----------------------------------------------------------------------------
(* Untracked documents and failures *)

Requests == {"completion", "hover", "goto_definition"}

\* the uris validate_document is called for in this step by task i
CalledFor(i) ==
    tasks'[i].entered \ (IF i \in DOMAIN tasks THEN tasks[i].entered ELSE {})

\* nothing of the session but task i changes in this step
OnlyTaskChanges(i) ==
    /\ UNCHANGED <<documents, document_settings, global_settings,
                   last_validated, diagnostics, flags>>
    /\ \A j \in DOMAIN tasks : j # i => tasks'[j] = tasks[j]

\* task i, as it is after this step, has failed with "not found in document
\* cache" and has neither asked the client for settings nor run the compiler
\* in this step
FailedNotFound(i) ==
    LET before == IF i \in DOMAIN tasks THEN tasks[i]
                  ELSE NewTask(tasks'[i].kind, tasks'[i].uri)
    IN /\ tasks'[i].result = "InvalidParams"
       /\ tasks'[i].pc = IF tasks'[i].kind \in Notifications THEN "log_error"
                         ELSE "done"
       /\ tasks'[i].pulls = before.pulls
       /\ tasks'[i].compiler_calls = before.compiler_calls
       /\ OnlyTaskChanges(i)

\* a completion, hover or goto_definition request for an untracked uri fails
UntrackedRequestFails ==
    \A kind \in Requests :
        (IsArrival(kind) /\ ~Tracked(documents, tasks'[Len(tasks')].uri))
        => FailedNotFound(Len(tasks'))

\* C11 (as claimed): a completion, hover or goto_definition request for an
\* uri that is not tracked, and every validate_document call for an uri that
\* is not tracked, fails with InvalidParams before any settings pull or
\* compiler call and changes nothing but its own task.
C11_UntrackedFails ==
    [][ /\ UntrackedRequestFails
        /\ \A i \in DOMAIN tasks' :
              (\E u \in CalledFor(i) : ~Tracked(documents', u))
              => FailedNotFound(i) ]_vars

\* C11 (amended): a completion, hover or goto_definition request for an uri
\* that is not tracked fails so; a validate_document call for an uri that is
\* not tracked fails so when the diagnostics flag is set to true, and
\* otherwise it is the no-op of C10: it waits on the no-capability log, having
\* looked up nothing, and changes nothing but its own task.
C11_UntrackedFailsWhenPublishing ==
    [][ /\ UntrackedRequestFails
        /\ \A i \in DOMAIN tasks' :
              (\E u \in CalledFor(i) : ~Tracked(documents', u))
              => IF can_publish_diagnostics = <<TRUE>>
                 THEN FailedNotFound(i)
                 ELSE /\ tasks'[i].pc = "vd_nopub"
                      /\ tasks'[i].result = "none"
                      /\ OnlyTaskChanges(i) ]_vars

\* C11, its case: with the diagnostics flag true a did_change of an uri that
\* is not tracked got past the throttle, called validate_document and failed
\* with InvalidParams without a compiler call.
C11_UntrackedEditFailed ==
    /\ can_publish_diagnostics = <<TRUE>>
    /\ \E i \in DOMAIN tasks :
          /\ tasks[i].kind = "did_change"
          /\ tasks[i].result = "InvalidParams"
          /\ tasks[i].entered = {tasks[i].uri}
          /\ tasks[i].compiler_calls = 0 /\ tasks[i].pulls = 0
          /\ ~Tracked(documents, tasks[i].uri)

\* task i can take its next step
CanProceed(i) ==
    CASE tasks[i].pc = "done" -> TRUE
      [] tasks[i].pc = "log_error" -> ENABLED ErrorLogged(i)
      [] tasks[i].pc = "vd_nopub" -> ENABLED NoPublishDone(i)
      [] tasks[i].pc = "gds_global_log" -> ENABLED SettingsGlobal(i)
      [] tasks[i].pc = "gds_cache_log" -> ENABLED SettingsCache(i)
      [] tasks[i].pc = "gds_pull" ->
            \A answer \in PullAnswers : ENABLED SettingsPull(i, answer)
      [] tasks[i].pc = "gds_fallback" -> ENABLED SettingsFallback(i)
      [] tasks[i].pc = "gds_fetch_log" -> ENABLED SettingsFetch(i)
      [] tasks[i].pc = "write" -> ENABLED TempFileWritten(i, "spawned")
      [] tasks[i].pc = "compiler" -> ENABLED CompilerReturn(i, "timeout")
      [] tasks[i].pc = "publish" -> ENABLED PublishDone(i)
      [] tasks[i].pc = "register" ->
            \A answer \in RegisterAnswers : ENABLED RegisterDone(i, answer)
      [] tasks[i].pc = "register_log" -> ENABLED RegisterLogged(i)
      [] tasks[i].pc = "initialized_log" -> ENABLED InitializedLogged(i)
      [] tasks[i].pc = "try_log" -> ENABLED TryLogged(i)
      [] tasks[i].pc = "folders_log" -> ENABLED FoldersLogged(i)
      [] tasks[i].pc = "shutdown_log" -> ENABLED ShutdownLogged(i)
      [] tasks[i].pc = "goto_log" -> ENABLED GotoLogged(i)
      [] OTHER -> FALSE

\* every notification and request can arrive
CanArrive ==
    /\ \A caps \in Capabilities : ENABLED Initialize(caps)
    /\ ENABLED Initialized
    /\ ENABLED DidChangeWorkspaceFolders /\ ENABLED Shutdown
    /\ \A u \in Uris, e \in Edits :
          ENABLED DidOpen(u, e) /\ ENABLED DidChange(u, e)
    /\ \A u \in Uris :
          /\ ENABLED DidClose(u)
          /\ ENABLED Completion(u) /\ ENABLED Hover(u)
          /\ ENABLED GotoDefinition(u)
    /\ \A p \in Payloads : ENABLED DidChangeConfiguration(p)

\* the handler got an Err
Failed(t) == t.result \notin {"none", "Ok", "panic"}

\* a handler panicked: the panic unwinds out of the handler
Panicked == \E i \in DOMAIN tasks : tasks[i].result = "panic"

\* an Err inside the handler of a notification is logged and the handler
\* returns; whatever has failed with an Err, every other task can go on and
\* every notification and request can still arrive
FailuresSwallowed ==
    /\ \A i \in DOMAIN tasks :
          (tasks[i].kind \in Notifications /\ Failed(tasks[i])) =>
             \/ tasks[i].pc = "log_error" /\ ~tasks[i].logged
             \/ tasks[i].pc = "done" /\ tasks[i].logged
    /\ ((\E i \in DOMAIN tasks : Failed(tasks[i])) /\ ~Panicked) =>
          /\ \A j \in DOMAIN tasks : CanProceed(j)
          /\ CanArrive

\* C12 (as claimed): a failure inside a notification handler is logged and
\* swallowed, later notifications and requests are processed, and no handler
\* invocation ends in a panic, which would end the session.
C12_NoFailureAborts ==
    /\ FailuresSwallowed
    /\ ~Panicked

\* C12 (amended): an Err inside a notification handler is logged and
\* swallowed and later notifications and requests are processed; the one
\* handler that panics is initialize, when it is called after an initialize
\* has latched the flags.
C12_OnlyRepeatedInitializePanics ==
    /\ FailuresSwallowed
    /\ \A i \in DOMAIN tasks :
          tasks[i].result = "panic" =>
             /\ tasks[i].kind = "initialize"
             /\ \E j \in DOMAIN tasks :
                   j < i /\ tasks[j].kind = "initialize" /\ tasks[j].result = "Ok"

\* C12, its case: a did_open failed in the compiler, logged the error and
\* returned, and a did_change that arrived after it validated and published.
C12_ValidatedAfterFailure ==
    \E i, j \in DOMAIN tasks :
        /\ i < j
        /\ tasks[i].kind = "did_open" /\ tasks[i].result = "Internal"
        /\ tasks[i].pc = "done" /\ tasks[i].logged
        /\ tasks[j].kind = "did_change" /\ tasks[j].result = "Ok"
        /\ tasks[j].published = 1

-----------------------------------------------------------------------------
(* Locks *)

\* C13: no task is suspended (on a log, a configuration round trip, a
\* publication, the temp-file write or the subprocess) while it holds a guard
\* of documents, document_settings, global_settings or last_validated; so
\* while a compiler call is in flight every notification and request can
\* arrive and take its locks, and every other suspended task can take its
\* next step.
C13_NoLockAcrossAwait ==
    /\ \A i \in DOMAIN tasks : Held(tasks[i].pc) = {}
    /\ (\E i \in DOMAIN tasks : tasks[i].pc \in CompilerAwaits) =>
          /\ CanArrive
          /\ \A j \in DOMAIN tasks :
                /\ CanProceed(j)
                /\ tasks[j].pc = "compiler" => ENABLED CompilerReturn(j, "ok")

\* C13, its case: while the compiler call of a did_open is in flight, a
\* configuration change that arrived after the did_open has replaced the
\* global settings and read the document store, and its own compiler call is
\* in flight.
C13_ConfigurationChangedDuringCompile ==
    \E i, j \in DOMAIN tasks :
        /\ i < j
        /\ tasks[i].kind = "did_open" /\ tasks[i].pc = "compiler"
        /\ tasks[i].settings = <<DefaultSettings>>
        /\ tasks[j].kind = "did_change_configuration"
        /\ tasks[j].pc = "compiler"
        /\ tasks[j].settings = <<AltSettings>>

-----------------------------------------------------------------------------
(* Overlapping validations *)

\* C14: nothing stands between a validation and its publication: every
\* notification that returned Ok has published once for each compiler call it
\* made, whatever has been published for the uri in the meantime; so of two
\* overlapping validations of an uri the one that read the older text can
\* publish last (the case below).
C14_PublishesWhateverItComputed ==
    \A i \in DOMAIN tasks :
        (tasks[i].kind \in Notifications /\ tasks[i].result = "Ok")
        => tasks[i].published = tasks[i].compiler_calls

\* C14, its case: a did_open read the text "a", a did_change that arrived
\* later read the text "b", both published, and the diagnostics the client
\* has last received are those of "a" while the document holds "b".
C14_StaleDiagnosticsLast ==
    \E i, j \in DOMAIN tasks :
        /\ i < j
        /\ tasks[i].kind = "did_open" /\ tasks[j].kind = "did_change"
        /\ tasks[i].uri = tasks[j].uri
        /\ tasks[i].pc = "done" /\ tasks[i].published = 1
        /\ tasks[j].pc = "done" /\ tasks[j].published = 1
        /\ tasks[i].edit = <<FirstEdit>> /\ tasks[j].edit = <<NextEdit>>
        /\ Tracked(documents, tasks[i].uri)
        /\ documents[tasks[i].uri].text = NextEdit.text
        /\ diagnostics[tasks[i].uri].text = FirstEdit.text

-----------------------------------------------------------------------------
(* The document store *)

\* the record of uri u changes in this step
RecordChanges(u) ==
    \/ Tracked(documents, u) # Tracked(documents', u)
    \/ Tracked(documents, u) /\ documents'[u] # documents[u]

\* C15 (as claimed): the version stored for an uri never decreases from one
\* state in which the uri is tracked to the next.
C15_VersionNeverDecreases ==
    [][ \A u \in Uris :
          (Tracked(documents, u) /\ Tracked(documents', u))
          => documents'[u].version >= documents[u].version ]_vars

\* C15 (amended): the version stored for an uri is the version that the last
\* did_open of the uri, or the last did_change applied to it, carried: a
\* did_open stores its version, a did_change of a tracked uri stores its
\* version, lower than the stored one or not, and no other step changes a
\* version.
C15_VersionIsTheClients ==
    [][ \A u \in Uris :
          LET t == tasks'[Len(tasks')] IN
          IF IsArrival("did_open") /\ t.uri = u
          THEN Tracked(documents', u)
               /\ documents'[u].version = t.edit[1].version
          ELSE IF IsArrival("did_change") /\ t.uri = u /\ Tracked(documents, u)
          THEN Tracked(documents', u)
               /\ documents'[u].version = t.edit[1].version
          ELSE IF IsArrival("did_close") /\ t.uri = u
          THEN ~Tracked(documents', u)
          ELSE ~RecordChanges(u) ]_vars

\* C15, its case: a did_change with version 1 was applied to a document that
\* was opened with version 2, and the store holds version 1.
C15_LowerVersionStored ==
    \E i, j \in DOMAIN tasks :
        /\ i < j
        /\ tasks[i].kind = "did_open" /\ tasks[i].edit[1].version = 2
        /\ tasks[j].kind = "did_change" /\ tasks[j].uri = tasks[i].uri
        /\ tasks[j].edit[1].version = 1
        /\ Tracked(documents, tasks[i].uri)
        /\ documents[tasks[i].uri].version = 1

\* the kind of the last did_open or did_close of uri u among the handler
\* invocations ts, "none" if there is none
LastOpenOrClose(ts, u) ==
    LET S == { i \in DOMAIN ts :
                 ts[i].kind \in {"did_open", "did_close"} /\ ts[i].uri = u }
    IN IF S = {} THEN "none"
       ELSE ts[CHOOSE i \in S : \A k \in S : k <= i].kind

\* C16: an uri is tracked exactly when the last did_open or did_close for it
\* was a did_open.  A did_open makes the record of its uri the text and
\* version it carries, whether the uri was tracked or not (so a repeated
\* did_open changes nothing), and leaves the other records; a did_close
\* removes the record of its uri and changes no other record, no settings,
\* not the throttle clock and no published diagnostics; a request for an uri
\* that is not tracked fails with InvalidParams.
C16_TrackedIffLastWasOpen ==
    [][ LET t == tasks'[Len(tasks')] IN
        /\ \A u \in Uris :
              Tracked(documents', u) <=> LastOpenOrClose(tasks', u) = "did_open"
        /\ IsArrival("did_open") =>
              /\ documents'[t.uri] = t.edit[1]
              /\ \A x \in Uris \ {t.uri} : ~RecordChanges(x)
              /\ (Tracked(documents, t.uri) /\ documents[t.uri] = t.edit[1])
                    => documents' = documents
        /\ IsArrival("did_close") =>
              /\ ~Tracked(documents', t.uri)
              /\ t.pc = "done" /\ t.result = "Ok"
              /\ \A x \in Uris \ {t.uri} : ~RecordChanges(x)
              /\ UNCHANGED <<document_settings, global_settings, last_validated,
                             diagnostics, flags>>
              /\ \A j \in DOMAIN tasks : tasks'[j] = tasks[j]
        /\ (IsArrival("completion") /\ ~Tracked(documents, t.uri)) =>
              t.result = "InvalidParams" ]_vars

\* C16, its case: an uri was opened, then closed while the other uri stayed
\* open, and a completion request for it that came later failed with
\* InvalidParams.
C16_ClosedThenNotFound ==
    \E i, j, k \in DOMAIN tasks :
        /\ i < j /\ j < k
        /\ tasks[i].kind = "did_open"
        /\ tasks[j].kind = "did_close" /\ tasks[j].uri = tasks[i].uri
        /\ tasks[k].kind = "completion" /\ tasks[k].uri = tasks[i].uri
        /\ tasks[k].result = "InvalidParams"
        /\ ~Tracked(documents, tasks[i].uri)
        /\ \E x \in Uris : Tracked(documents, x)

-----------------------------------------------------------------------------
(* run_compiler *)

\* C18: the temp file of a run_compiler call exists only while the call is
\* suspended: when the call has returned, by whichever path (Ok, write
\* failure, spawn failure, timeout, output that is not UTF-8), the file is
\* gone, and a call that could not create the file has left none.
C18_TempFileGoneAfterReturn ==
    \A i \in DOMAIN tasks :
        /\ tasks[i].pc \in CompilerAwaits => tasks[i].temp = "exists"
        /\ tasks[i].pc \notin CompilerAwaits
              => tasks[i].temp \in {"none", "deleted"}
        /\ tasks[i].compiler_result \in {"Ok", "Parse"}
              => tasks[i].temp = "deleted"

\* C18, its case: a run_compiler call timed out; its file is gone although
\* its subprocess has not completed.
C18_DeletedAfterTimeout ==
    \E i \in DOMAIN tasks :
        /\ tasks[i].kind = "completion" /\ tasks[i].pc = "done"
        /\ tasks[i].compiler_result = "Internal" /\ tasks[i].proc = "running"
        /\ tasks[i].temp = "deleted"

\* C19: a run_compiler call that is suspended eventually returns; a call
\* whose subprocess hangs returns the Internal error of the timeout, and the
\* subprocess is left as it is.
C19_RunCompilerReturns ==
    /\ \A i \in Slots(MaxTasksLive) :
          (i \in DOMAIN tasks /\ tasks[i].pc \in CompilerAwaits)
             ~> (i \in DOMAIN tasks /\ tasks[i].pc \notin CompilerAwaits)
    /\ [][ \A i \in DOMAIN tasks :
             (tasks[i].pc = "compiler" /\ tasks[i].proc = "hung"
                 /\ tasks'[i].pc # "compiler")
             => /\ tasks'[i].compiler_result = "Internal"
                /\ tasks'[i].result = "Internal"
                /\ tasks'[i].proc = "hung" ]_vars

\* C19, its case: the subprocess of a did_open hung, run_compiler returned
\* the error, the handler logged it and returned, and the subprocess still
\* hangs.
C19_ReleasedWhileHung ==
    \E i \in DOMAIN tasks :
        /\ tasks[i].kind = "did_open" /\ tasks[i].pc = "done"
        /\ tasks[i].logged /\ tasks[i].result = "Internal"
        /\ tasks[i].proc = "hung"

\* C20: when the subprocess of a run_compiler call has completed, the call
\* returned Ok if the output is valid UTF-8 and a Parse error if not, with
\* exit status 0 and with exit status 1 alike.
C20_ExitStatusIgnored ==
    \A i \in DOMAIN tasks :
        tasks[i].exit # <<>> =>
            tasks[i].compiler_result =
                IF tasks[i].stdout = "not_utf8" THEN "Parse" ELSE "Ok"

\* C20, its case: a completion whose subprocess ended with exit status 1 and
\* valid output returned Ok.
C20_OkOnNonZeroExit ==
    \E i \in DOMAIN tasks :
        /\ tasks[i].kind = "completion" /\ tasks[i].exit = <<1>>
        /\ tasks[i].stdout = "json"
        /\ tasks[i].compiler_result = "Ok" /\ tasks[i].result = "Ok"

-----------------------------------------------------------------------------
(* Error kinds *)

\* C21 (as claimed): every failure has the kind of its cause: a failed lock
\* acquisition, a temp file that cannot be created or written, a process that
\* cannot be started and a timeout are Internal; output that is not UTF-8 and
\* a completion or hover output that is not the expected JSON are Parse; and
\* InvalidParams is the failure of a lookup in a store that could be read.
C21_KindOfEveryCause ==
    \A i \in DOMAIN tasks :
        LET t == tasks[i] IN
        Failed(t) =>
           /\ t.cause = "lock" => t.result = "Internal"
           /\ (t.cause # "lock" /\ t.compiler_result = "Internal")
                 => t.result = "Internal"
           /\ (t.cause # "lock" /\ t.stdout = "not_utf8") => t.result = "Parse"
           /\ (t.cause # "lock" /\ t.stdout = "bad_json" /\ t.kind \in Requests)
                 => t.result = "Parse"
           /\ t.result = "InvalidParams" => t.cause # "lock"

-----------------------------------------------------------------------------
(* goto_definition *)

GotoAnswered(t) == t.kind = "goto_definition" /\ t.target # "none"

\* C22: a goto_definition whose decoded target file is empty (the field
\* absent or "") or is "__prelude__" has returned Ok with no result; one
\* whose target is not on disk is logging that, or has logged it and returned
\* Ok with no result, and never fails; one that returned a location has a
\* target that is on disk.
C22_NoResultWithoutTarget ==
    \A i \in DOMAIN tasks :
        LET t == tasks[i] IN
        GotoAnswered(t) =>
           /\ NoTarget(t.target)
                 => t.pc = "done" /\ t.result = "Ok" /\ t.location = <<>>
           /\ (~NoTarget(t.target) /\ t.target \notin OnDisk)
                 => /\ t.location = <<>>
                    /\ \/ t.pc = "goto_log" /\ t.result = "none"
                       \/ t.pc = "done" /\ t.result = "Ok"
           /\ t.location # <<>> => t.target \in OnDisk /\ t.result = "Ok"

\* C22, its case: of two goto_definition requests one was answered with a
\* file that is not on disk and returned no result, the other with a file
\* that is and returned a location in it.
C22_MissingFileAndLocation ==
    \E i, j \in DOMAIN tasks :
        /\ GotoAnswered(tasks[i]) /\ tasks[i].target = "/missing.nu"
        /\ tasks[i].pc = "done"
        /\ tasks[i].result = "Ok" /\ tasks[i].location = <<>>
        /\ GotoAnswered(tasks[j]) /\ tasks[j].target = "/lib.nu"
        /\ tasks[j].location # <<>>
        /\ tasks[j].location[1].uri = "file:///lib.nu"

\* C23 (as claimed): the offsets of a goto-definition answer are converted
\* with the target document when it is tracked, and with the requesting
\* document otherwise.
C23_RangeOfTargetIfTracked ==
    [][ \A i \in DOMAIN tasks :
          (tasks[i].location = <<>> /\ tasks'[i].location # <<>>) =>
             LET url == UrlFromFilePath(tasks'[i].target)[1] IN
             tasks'[i].location[1].of =
                IF Tracked(documents, url) THEN url ELSE tasks[i].uri ]_vars

-----------------------------------------------------------------------------
(* Decoding *)

\* the lines of an output, each as the sequence of its pieces: output s has
\* a line from piece a to piece b when no line feed is among them, a is the
\* first piece or follows a line feed, and b is the last piece (a <= b) or
\* precedes a line feed
LineBoundsOf(s) ==
    { <<a, b>> \in (1..(Len(s) + 1)) \X (0..Len(s)) :
        /\ a <= b + 1
        /\ \A k \in a..b : s[k] # LineFeed
        /\ a = 1 \/ s[a - 1] = LineFeed
        /\ IF b = Len(s) THEN a <= b ELSE s[b + 1] = LineFeed }

\* the piece that is a line of s by itself and a well-formed object tagged
\* tag, for every such line, in the order of the output
TaggedLines(s, tag, fields) ==
    LET at == { bd[1] : bd \in { x \in LineBoundsOf(s) :
                   /\ x[1] = x[2]
                   /\ s[x[1]].is = "object"
                   /\ "type" \in DOMAIN s[x[1]].object
                   /\ s[x[1]].object.type = tag
                   /\ fields \subseteq DOMAIN s[x[1]].object
                   /\ ("severity" \in fields
                          => s[x[1]].object.severity \in Severities) } }
        sel == SelectSeq([k \in 1..Len(s) |-> k], LAMBDA k : k \in at)
    IN [ n \in DOMAIN sel |->
           [ f \in fields |-> s[sel[n]].object[f] ] ]

\* C24: the diagnostics of a decoded check response are the lines that are
\* one well-formed object tagged "diagnostic", the hints those tagged "hint",
\* each in output order with the fields of the line; no other line (no JSON,
\* a field missing, an unknown severity or tag, no tag, several objects)
\* contributes, fails the decoding or hides a line that follows it.
C24_DecodesLineByLine ==
    \A i \in DOMAIN tasks :
        tasks[i].kind = "from_compiler_response" =>
           LET s == tasks[i].input[1]
               got == tasks[i].output[1]
           IN /\ tasks[i].result = "Ok"
              /\ got.diagnostics =
                    TaggedLines(s, "diagnostic", {"message", "severity", "span"})
              /\ got.inlay_hints =
                    TaggedLines(s, "hint", {"position", "typename"})

\* C24, its case: a line that is no JSON, then a diagnostic line, decoded to
\* the one diagnostic.
C24_ValidLineAfterGarbage ==
    \E i \in DOMAIN tasks :
        /\ tasks[i].kind = "from_compiler_response"
        /\ tasks[i].input[1] =
              << NotJson, LineFeed,
                 Object([type |-> "diagnostic", message |-> "m1",
                         severity |-> "Error", span |-> SpanA]) >>
        /\ tasks[i].output[1].diagnostics =
              << [message |-> "m1", severity |-> "Error", span |-> SpanA] >>
        /\ tasks[i].output[1].inlay_hints = <<>>

\* C25: a mapped completion answer has one item for each label, in the order
\* of the labels; the item of the k-th label (k from 1, the index from 0 plus
\* one) has the identifier k, the label, and the kind FUNCTION when "(" is
\* among the characters of the label and FIELD when not.
C25_OneItemPerLabel ==
    \A i \in DOMAIN tasks :
        tasks[i].kind = "completion_response" =>
           LET labels == tasks[i].input[1]
               items == tasks[i].output[1]
           IN /\ Len(items) = Len(labels)
              /\ \A k \in 1..Len(labels) :
                    /\ items[k].label = labels[k]
                    /\ items[k].data = k
                    /\ items[k].kind = "FUNCTION" <=>
                          "(" \in { labels[k][n] : n \in 1..Len(labels[k]) }
                    /\ items[k].kind \in {"FUNCTION", "FIELD"}

\* C25, its case: the labels "a(" and "a" were mapped to a FUNCTION with the
\* identifier 1 and a FIELD with the identifier 2.
C25_FunctionThenField ==
    \E i \in DOMAIN tasks :
        /\ tasks[i].kind = "completion_response"
        /\ tasks[i].input[1] = << <<"a", "(">>, <<"a">> >>
        /\ tasks[i].output[1] =
              << [data |-> 1, kind |-> "FUNCTION", label |-> <<"a", "(">>],
                 [data |-> 2, kind |-> "FIELD", label |-> <<"a">>] >>

-----------------------------------------------------------------------------
(* The arguments of the subprocess *)

\* the subprocess of task i is running
Spawned(i) == tasks[i].pc = "compiler" /\ tasks[i].proc = "running"

\* the directory of the file the uri names, when it names one that has one
ParentDirOf(u) ==
    IF u \in {"file:///a.nu", "file:///b.nu"} THEN <<"/">>
    ELSE IF u = "file:///dir/c.nu" THEN <<"/dir">>
    ELSE <<>>

\* the include list the specification describes
IncludeListOf(t) ==
    ParentDirOf(t.cur) \o t.settings[1].include_dirs

\* the arguments before the temp file, as the specification describes them
ArgsBeforeFile(t) ==
    (CASE t.kind = "completion" -> <<"--ide-complete", OffsetArg>>
       [] t.kind = "hover" -> <<"--ide-hover", OffsetArg>>
       [] t.kind = "goto_definition" -> <<"--ide-goto-def", OffsetArg>>
       [] OTHER -> <<"--ide-check">>)
    \o (IF t.kind \in {"did_open", "did_change", "did_change_configuration"}
        THEN <<ToString(t.settings[1].max_number_of_problems)>> ELSE <<>>)
    \o (IF IncludeListOf(t) = <<>> THEN <<>>
        ELSE IF Len(IncludeListOf(t)) = 1
        THEN <<"--include-path", <<IncludeListOf(t)[1]>> >>
        ELSE IF Len(IncludeListOf(t)) = 2
        THEN <<"--include-path",
               <<IncludeListOf(t)[1], "\\x1e", IncludeListOf(t)[2]>> >>
        ELSE <<"--include-path",
               <<IncludeListOf(t)[1], "\\x1e", IncludeListOf(t)[2], "\\x1e",
                 IncludeListOf(t)[3]>> >>)

\* C26: the argument vector of the subprocess is the operation's flags, then
\* the maximum number of problems if and only if the operation is the check,
\* then, if and only if the include list is not empty, "--include-path" and
\* the list (the directory of the source file of a file uri, then the
\* configured directories in their order) joined with the record separator,
\* and the path of the temp file last.
C26_ArgumentVector ==
    \A i \in DOMAIN tasks :
        Spawned(i) =>
            tasks[i].argv = Append(ArgsBeforeFile(tasks[i]),
                                   tasks[i].paths[Len(tasks[i].paths)])

\* a check with the directory of the file and two configured directories
C26_CheckWithIncludes ==
    \E i \in DOMAIN tasks :
        /\ Spawned(i)
        /\ tasks[i].kind = "did_open" /\ tasks[i].cur = "file:///dir/c.nu"
        /\ tasks[i].argv = <<"--ide-check", "5", "--include-path",
                             <<"/dir", "\\x1e", "lib", "\\x1e", "vendor">>,
                             tasks[i].paths[1]>>

-----------------------------------------------------------------------------
(* The per-document settings cache *)

\* task i takes a step from the place pc
StepsFrom(i, pc) ==
    i \in DOMAIN tasks /\ tasks[i].pc = pc /\ tasks'[i] # tasks[i]

\* get_document_settings of task i returns the settings s in this step: its
\* caller goes on to run_compiler, whose subprocess, when it comes to be, is
\* run with s
Returns(i, s) ==
    /\ tasks'[i].compiler_calls = tasks[i].compiler_calls + 1
    /\ tasks'[i].pc = "write" => tasks'[i].settings = <<s>>

\* task i asks the client for the configuration in this step
Asks(i) ==
    tasks'[i].pulls > (IF i \in DOMAIN tasks THEN tasks[i].pulls ELSE 0)

\* C27: with per-resource lookup enabled, a lookup for a uri that has a cache
\* entry returns the entry, asks the client nothing and leaves the cache as it
\* is; the client is asked only by a lookup that missed: only a read of the
\* cache that finds no entry goes on to the log before the request, and only
\* from that log is the request sent, once.
C27_HitAsksNothing ==
    [][ /\ \A i \in DOMAIN tasks :
              (/\ StepsFrom(i, "gds_cache_log")
               /\ tasks[i].cur \in DOMAIN document_settings)
              => /\ Returns(i, document_settings[tasks[i].cur])
                 /\ ~Asks(i)
                 /\ tasks'[i].pc \notin {"gds_fetch_log", "gds_pull"}
                 /\ document_settings' = document_settings
        /\ \A i \in DOMAIN tasks' :
              /\ (/\ tasks'[i].pc = "gds_fetch_log"
                  /\ (i \notin DOMAIN tasks \/ tasks[i].pc # "gds_fetch_log"))
                 => /\ StepsFrom(i, "gds_cache_log")
                    /\ can_lookup_configuration = <<TRUE>>
                    /\ tasks[i].cur \notin DOMAIN document_settings
              /\ Asks(i) => /\ StepsFrom(i, "gds_fetch_log")
                            /\ tasks'[i].pulls = tasks[i].pulls + 1 ]_vars

\* C27, its case: a did_open missed, asked the client and cached the answer;
\* a later hover in the same document got the entry without asking.
C27_HitAfterMiss ==
    \E i, j \in DOMAIN tasks :
        /\ i < j
        /\ tasks[i].kind = "did_open" /\ tasks[i].pulls = 1
        /\ tasks[i].settings = <<AltSettings>>
        /\ tasks[j].kind = "hover" /\ tasks[j].uri = tasks[i].uri
        /\ tasks[j].pulls = 0 /\ tasks[j].pc = "compiler"
        /\ tasks[j].settings = <<AltSettings>>
        /\ document_settings = [u \in {tasks[i].uri} |-> AltSettings]

\* the settings the specification says a configuration value gives
ParsedOrDefaults(answer) ==
    IF answer = "alt" THEN AltSettings ELSE DefaultSettings

\* C28: with per-resource lookup enabled and no cache entry, an answer with a
\* value gives the settings parsed from it (the defaults when it does not
\* parse), which are stored in the cache under the uri and returned, so that
\* the uri has an entry; an answer with no value gives the defaults and
\* leaves the cache as it is.
C28_AnswerCachedOrDefaults ==
    [][ \A i \in DOMAIN tasks :
          /\ StepsFrom(i, "gds_pull") =>
                LET u == tasks[i].cur
                    Stored(s) ==
                        /\ DOMAIN document_settings' =
                              DOMAIN document_settings \cup {u}
                        /\ \A x \in DOMAIN document_settings' :
                              document_settings'[x] =
                                 IF x = u THEN s ELSE document_settings[x]
                IN CASE tasks'[i].result = "ClientError" ->
                          document_settings' = document_settings
                     [] tasks'[i].answer = <<"none">> ->
                          /\ tasks'[i].pc = "gds_fallback"
                          /\ document_settings' = document_settings
                     [] tasks'[i].answer = <<>> ->
                          \* the temp file could not be created
                          /\ Returns(i, DefaultSettings)
                          /\ Stored(AltSettings) \/ Stored(DefaultSettings)
                     [] OTHER ->
                          /\ Returns(i, ParsedOrDefaults(tasks'[i].answer[1]))
                          /\ Stored(ParsedOrDefaults(tasks'[i].answer[1]))
          /\ StepsFrom(i, "gds_fallback") =>
                /\ Returns(i, DefaultSettings)
                /\ document_settings' = document_settings ]_vars

\* C28, its cases: one document's lookup was answered by a value that does
\* not parse and has the defaults cached; the other's was answered without a
\* value, got the defaults and has no entry.
C28_MalformedCachedNoneNot ==
    \E i, j \in DOMAIN tasks :
        /\ tasks[i].answer = <<"malformed">> /\ tasks[i].pc = "compiler"
        /\ tasks[i].settings = <<DefaultSettings>>
        /\ tasks[j].answer = <<"none">> /\ tasks[j].pc = "compiler"
        /\ tasks[j].settings = <<DefaultSettings>>
        /\ tasks[j].cur # tasks[i].cur
        /\ document_settings = [u \in {tasks[i].cur} |-> DefaultSettings]

-----------------------------------------------------------------------------
(* The temp file of a compiler call *)

\* the calls that have created a temp file: task i's k-th such call
TempCalls ==
    UNION { { <<i, k>> : k \in DOMAIN tasks[i].paths } : i \in DOMAIN tasks }

\* the path of the temp file task i's call in flight has been given
PathInUse(i) == tasks[i].paths[Len(tasks[i].paths)]

\* the texts that calls in flight have written to the path p
TextsWritten(p) ==
    { tasks[j].text : j \in { k \in DOMAIN tasks :
                                /\ tasks[k].temp = "exists"
                                /\ PathInUse(k) = p } }

\* C29: every run_compiler call writes to a temp file of its own: no two
\* calls, in flight together or one after the other, are given the same
\* path, and while a call is in flight its file holds the text that call was
\* given and nothing of another call or of a later edit of the document.
C29_TempFilePerCall ==
    /\ \A c, d \in TempCalls :
          tasks[c[1]].paths[c[2]] = tasks[d[1]].paths[d[2]] => c = d
    /\ \A i \in DOMAIN tasks :
          tasks[i].temp = "exists" =>
             /\ tasks[i].paths # <<>>
             /\ Len(tasks[i].paths) <= tasks[i].compiler_calls
             /\ TextsWritten(PathInUse(i)) = {tasks[i].text}
             /\ tasks[i].pc = "compiler"
                   => tasks[i].argv[Len(tasks[i].argv)] = PathInUse(i)

\* C29, its case: the compiler calls of a did_open and of a later did_change
\* of the same document are in flight together, each with its own file; the
\* first holds the text "a" although the document holds "b" by now.
C29_TwoFilesInFlight ==
    \E i, j \in DOMAIN tasks :
        /\ i < j
        /\ tasks[i].kind = "did_open" /\ tasks[j].kind = "did_change"
        /\ tasks[i].uri = tasks[j].uri
        /\ Spawned(i) /\ Spawned(j)
        /\ PathInUse(i) # PathInUse(j)
        /\ TextsWritten(PathInUse(i)) = {FirstEdit.text}
        /\ TextsWritten(PathInUse(j)) = {NextEdit.text}
        /\ documents[tasks[i].uri].text = NextEdit.text

-----------------------------------------------------------------------------
(* The throttle is no debounce *)

\* every handler that was invoked has returned
Quiet == \A i \in DOMAIN tasks : tasks[i].pc = "done"

\* C30: the throttle does not see to it that the final text is validated.
\* validate_document is entered only in the step in which a notification
\* arrives (for a did_change: only 500 ms or more after last_validated) or in
\* the loop of a configuration change that has not returned; a handler that
\* has returned does nothing more.  So the edit that was skipped stays
\* unvalidated for as long as no notification arrives (the case below).
C30_NothingValidatesLater ==
    [][ /\ \A i \in DOMAIN tasks' :
              CalledFor(i) # {} =>
                 \/ /\ i = Len(tasks) + 1
                    /\ tasks'[i].kind = "did_change" =>
                          now - last_validated >= THROTTLE_MS
                 \/ /\ i \in DOMAIN tasks
                    /\ tasks[i].kind = "did_change_configuration"
                    /\ tasks[i].pc \notin {"done", "log_error"}
        /\ \A i \in DOMAIN tasks :
              tasks[i].pc = "done" => tasks'[i] = tasks[i]
        /\ (Quiet /\ Len(tasks') = Len(tasks)) =>
              UNCHANGED <<tasks, documents, diagnostics, last_validated>> ]_vars

\* C30, its case: a did_open was validated with the text "a"; the did_change
\* that followed inside the interval, the last edit, set the text "b" and was
\* skipped; every handler has returned, the interval has long passed, and
\* what the client has are still the diagnostics of "a".
C30_FinalTextNotValidated ==
    \E i, j \in DOMAIN tasks :
        /\ Quiet
        /\ i < j /\ j = Len(tasks)
        /\ tasks[i].kind = "did_open" /\ tasks[i].published = 1
        /\ tasks[j].kind = "did_change" /\ tasks[j].uri = tasks[i].uri
        /\ tasks[j].edit = <<NextEdit>>
        /\ tasks[j].result = "Ok" /\ tasks[j].entered = {}
        /\ \A k \in DOMAIN tasks : tasks[k].kind = "did_change" => k = j
        /\ now - tasks[j].started >= THROTTLE_MS
        /\ documents[tasks[i].uri].text = NextEdit.text
        /\ diagnostics[tasks[i].uri].text = FirstEdit.text

-----------------------------------------------------------------------------
(* The conversions of a check answer and of a duration *)

\* the conversions of the kind that were made
Converted(kind) == { i \in DOMAIN tasks : tasks[i].kind = kind }

\* C31 (as claimed): every hint becomes an inlay hint of kind TYPE at
\* position_at(end of the span) whose label is the inferred type name.
C31_LabelIsTypeName ==
    \A i \in Converted("to_inlay_hint") :
        LET h == tasks[i].input[1]
            doc == tasks[i].input[2]
            hint == tasks[i].output[1]
        IN /\ hint.kind = "TYPE"
           /\ hint.position = PositionAt(doc, h.position.end)
           /\ hint.label = <<h.typename>>

\* C31 (amended): every hint becomes an inlay hint of kind TYPE at
\* position_at(end of the span), never at its start, whose label is ": "
\* followed by the inferred type name.
C31_LabelIsColonAndTypeName ==
    \A i \in Converted("to_inlay_hint") :
        LET h == tasks[i].input[1]
            doc == tasks[i].input[2]
            hint == tasks[i].output[1]
        IN /\ hint.kind = "TYPE"
           /\ hint.position = PositionAt(doc, h.position.end)
           /\ hint.label = <<": ", h.typename>>

\* C31, its case: the span of the hint begins in the first line and ends in
\* the second, and the inlay hint is at the start of the second line.
C31_HintAtEndOfSpan ==
    \E i \in Converted("to_inlay_hint") :
        /\ tasks[i].input[1] =
              [position |-> [start |-> 0, end |-> 2], typename |-> "int"]
        /\ tasks[i].input[2] = <<"a", "lf">>
        /\ tasks[i].output[1] =
              [ position |-> [line |-> 1, character |-> 0],
                label |-> <<": ", "int">>, kind |-> "TYPE" ]

\* the LSP severity of the same name
SameName(severity) ==
    CASE severity = "Error" -> "ERROR"
      [] severity = "Warning" -> "WARNING"
      [] severity = "Information" -> "INFORMATION"
      [] severity = "Hint" -> "HINT"

\* C32: to_diagnostic keeps the message, gives the LSP severity of the same
\* name (so that different severities stay different), the range from
\* position_at(span.start) to position_at(span.end), and the uri of the
\* document as the source.
C32_DiagnosticOfCheck ==
    \A i \in Converted("to_diagnostic") :
        LET d == tasks[i].input[1]
            doc == tasks[i].input[2]
            u == tasks[i].input[3]
            got == tasks[i].output[1]
        IN /\ got.message = d.message
           /\ got.severity = <<SameName(d.severity)>>
           /\ \A other \in Severities \ {d.severity} :
                 got.severity # <<SameName(other)>>
           /\ got.range.start = PositionAt(doc, d.span.start)
           /\ got.range.end = PositionAt(doc, d.span.end)
           /\ got.source = <<u>>

\* C32, its case: a diagnostic of severity Hint, whose span ends behind the
\* line feed, was converted.
C32_HintSeverityKept ==
    \E i \in Converted("to_diagnostic") :
        /\ tasks[i].input[1] =
              [message |-> "m2", severity |-> "Hint", span |-> SpanB]
        /\ tasks[i].input[2] = <<"a", "lf">>
        /\ tasks[i].output[1] =
              [ message |-> "m2",
                range |-> [ end |-> [line |-> 1, character |-> 0],
                            start |-> [line |-> 1, character |-> 0] ],
                severity |-> <<"HINT">>,
                source |-> <<tasks[i].input[3]>> ]

\* the milliseconds of a Duration, when it is a whole number of them
Millis(duration) ==
    IF duration.nanos % 1000000 = 0 /\ duration.nanos < 1000000000
    THEN <<duration.secs * 1000 + duration.nanos \div 1000000>>
    ELSE <<>>

\* C36: into_duration_ms gives a duration of exactly n milliseconds for a
\* number that is a non-negative integer n that is a u64 (digits without a
\* sign and without a point), and an error, never a duration, for a number
\* that is negative or no integer (digits with a minus sign or with a
\* point).
C36_WholeMillisecondsOrError ==
    \A i \in Converted("into_duration_ms") :
        LET j == tasks[i].input[1]
            got == tasks[i].output[1]
        IN j # NotANumber =>
           /\ (~j.neg /\ j.frac = "" /\ j.whole # TooLong)
                 => got # <<>> /\ Millis(got[1]) = <<j.whole>>
           /\ (j.neg \/ j.frac # "") => got = <<>>

\* C36, its case: the number 1999 became one second and 999 milliseconds.
C36_SecondsAndMilliseconds ==
    \E i \in Converted("into_duration_ms") :
        /\ tasks[i].input[1] = [neg |-> FALSE, whole |-> 1999, frac |-> ""]
        /\ tasks[i].output[1] = <<[secs |-> 1, nanos |-> 999000000]>>

-----------------------------------------------------------------------------
(* Edits while the compiler runs *)

\* C33 (as claimed): what is published for a uri carries the version of the
\* text that was handed to the compiler: the text checked and the version
\* are those of one edit of the document.
C33_VersionOfCheckedText ==
    \A u \in DOMAIN diagnostics :
        \E e \in Edits : /\ e.text = diagnostics[u].text
                         /\ e.version = diagnostics[u].version

\* C34 (as claimed): the spans of an answer are converted with the text that
\* was written to the temp file of the call, in validate_document, hover and
\* goto_definition.
C34_SpansOfWrittenText ==
    /\ \A u \in DOMAIN diagnostics : diagnostics[u].ranged = diagnostics[u].text
    /\ \A i \in DOMAIN tasks :
          tasks[i].ranged # <<>> =>
             tasks[i].ranged[1].converted = tasks[i].ranged[1].written

-----------------------------------------------------------------------------
(* The cache and a configuration change *)

\* C35 (as claimed): when a configuration change has emptied the cache, no
\* answer to a configuration request that was sent before is stored in the
\* cache afterwards.
C35_NoStaleSettingsCached ==
    [][ \A i \in DOMAIN tasks :
          (/\ StepsFrom(i, "gds_pull")
           /\ document_settings' # document_settings)
          => ConfigurationChanges = tasks[i].asked[1] ]_vars

====
